---- MODULE Spec2Model ----
(***************************************************************************)
(* A model of the upload execution core of s3-sdk-experiments (Go):        *)
(*   - the multipart engine (internal/aws/multipart.go and                 *)
(*     internal/aws/multipart_parallel.go),                                *)
(*   - the retry wrapper and the directory upload (internal/uploader),     *)
(*   - the worker pool (ParallelUploader),                                 *)
(*   - the task runner (TaskRunner).                                       *)
(* Each component has its own specification over the same variables; the   *)
(* variables of the components a specification does not run stay at their  *)
(* initial values.                                                         *)
(***************************************************************************)
EXTENDS Integers, Sequences, FiniteSets, TLC

(***************************************************************************)
(* Bounds of the model and program constants.                              *)
(***************************************************************************)
MiB == 1048576
minPartSize == 5 * MiB
MaxSizeSteps == 2
MaxPartWorkers == 2
MaxRetries == 35
MaxPoolWorkers == 2

SizeStep == 3 * MiB
FileSizes == {k * SizeStep + r : k \in 0..MaxSizeSteps, r \in {0, 1}}
ChunkSizes == {0, 3 * MiB, minPartSize}
PartWorkers == 1..MaxPartWorkers

VARIABLES
    ctxCancelled,   \* the caller's context has been cancelled
    calls,          \* the transport calls issued so far, in order
    mpIn,           \* arguments of the running multipart upload
    mpPc,           \* position of the goroutine running UploadFileMultipart[Parallel]
    uploadID,       \* mum.uploadID (0: no session)
    parts,          \* mum.parts
    partNumber,     \* mum.partNumber (sequential) / Upload's partNumber (parallel)
    offset,         \* the loop variable offset
    uploadErr,      \* uploadErr != nil
    fileOpen,       \* the source file handle is open
    jobQueue,       \* Upload's jobQueue
    jobQueueClosed,
    errChan,        \* Upload's errChan
    errChanClosed,
    innerCancelled, \* Upload's cancel() has been called
    wk              \* the part workers: position and current job

VARIABLES
    uploadConfig,   \* Uploader.uploadConfig
    files,          \* the files the run is about: size and whether os.Stat succeeds
    rt,             \* UploadFileWithRetry, per calling goroutine (0: the caller's)
    attempts        \* per file, the UploadFile invocations made for it, in order

mpVars == <<mpIn, mpPc, uploadID, parts, partNumber, offset, uploadErr, fileOpen,
            jobQueue, jobQueueClosed, errChan, errChanClosed, innerCancelled, wk>>
envVars == <<ctxCancelled, calls>>
VARIABLES
    dirPc,            \* position of the goroutine running UploadDirectoryWithRetry
    dirIdx,           \* number of files taken up by the loop over files
    dirResults,       \* the results slice being returned
    dirErr,           \* the error being returned
    puJobQueue,       \* pu.jobQueue
    puJobQueueClosed,
    resultQueue,      \* pu.resultQueue
    resultQueueClosed,
    poolCancelled,    \* pu.cancel() has been called
    stopped,          \* pu.stopped
    pw,               \* the pool workers: position and current job
    collectedResults, \* the collector goroutine's slice
    stats             \* pu.uploadedCount, pu.failedCount, pu.totalBytes

VARIABLES
    tasks,            \* tr.config.UploadTasks, with what os.Stat finds at each source
    trPc,             \* position of the goroutine running RunAllTasks
    trIdx,            \* number of tasks the loop over tasks has taken up
    report            \* the RunReport being built

upVars == <<uploadConfig, files, rt, attempts>>
dirVars == <<dirPc, dirIdx, dirResults, dirErr>>
poolVars == <<puJobQueue, puJobQueueClosed, resultQueue, resultQueueClosed,
              poolCancelled, stopped, pw, collectedResults, stats>>
taskVars == <<tasks, trPc, trIdx, report>>
VARIABLES
    processedBytes,   \* ProgressTracker.processedBytes
    stopPc,           \* the goroutines calling ParallelUploader.Stop: position, calls left
    poolPanic,        \* the runtime panic a pool operation has raised ("": none)
    args,             \* arguments of the function being applied
    ret,              \* the value it returned
    pt,               \* the ProgressTracker: totalFiles, its other counters, activeWorkers, mu
    ptPc,             \* the goroutines calling the ProgressTracker: position, call, result
    ptLog             \* the calls of the ProgressTracker that have returned

trackerVars == <<pt, ptPc, ptLog>>
sideVars == <<processedBytes, stopPc, poolPanic, args, ret, trackerVars>>
vars == <<envVars, mpVars, upVars, dirVars, poolVars, taskVars, sideVars>>

(***************************************************************************)
(* Helpers.                                                                *)
(***************************************************************************)

RECURSIVE InsertPart(_, _)
InsertPart(p, s) ==
    IF s = <<>> THEN <<p>>
    ELSE IF p.PartNumber < Head(s).PartNumber THEN <<p>> \o s
    ELSE <<Head(s)>> \o InsertPart(p, Tail(s))

RECURSIVE SortSlice(_)
\* sort.Slice(mum.parts, PartNumber ascending)
SortSlice(s) == IF s = <<>> THEN <<>> ELSE InsertPart(Head(s), SortSlice(Tail(s)))

UnsortedSlice(s) == s

\* the part list CompleteMultipartUpload submits
CompletedParts(s) == SortSlice(s)

\* the chunk size the variant works with
EffectiveChunk(variant, requested) ==
    IF variant = "seq" /\ requested < minPartSize THEN minPartSize ELSE requested

\* totalParts := (fileSize + chunkSize - 1) / chunkSize
TotalParts(fileSize, chunkSize) == (fileSize + chunkSize - 1) \div chunkSize

WholeChunk(fileSize, chunkSize, off) == chunkSize

\* partSize of the part starting at off
PartSize(fileSize, chunkSize, off) ==
    IF off + chunkSize > fileSize THEN fileSize - off ELSE chunkSize

BackgroundCtx == "background"
CallerCtx == "caller"
AbortOnCallerContext == CallerCtx
PoolContextFromCaller == CallerCtx
\* the context the deferred AbortMultipartUpload runs on
AbortContext == BackgroundCtx

\* the parent of pu.ctx: context.WithCancel(context.Background())
PoolContextParent == BackgroundCtx

\* ctx.Done() is closed for the named context
CtxDone(c) ==
    CASE c = "background" -> FALSE
      [] c = "caller" -> ctxCancelled
      [] c = "upload" -> ctxCancelled \/ innerCancelled
      [] c = "pool" -> poolCancelled \/ (PoolContextParent = CallerCtx /\ ctxCancelled)

\* outcomes a transport call on context c can have: a call on a cancelled
\* context returns the context's error
Outcomes(c) == IF CtxDone(c) THEN {FALSE} ELSE {TRUE, FALSE}

Call(op, id, c, n, ps, ok) ==
    [op |-> op, id |-> id, ctx |-> c, cancelled |-> CtxDone(c), part |-> n, parts |-> ps, ok |-> ok]

\* a failed operation on the source file (file.Seek, file.ReadAt), recorded
\* with the session it was for
FileOpFailure(op, id) ==
    [op |-> op, id |-> id, ctx |-> "none", cancelled |-> FALSE, part |-> 0, parts |-> <<>>, ok |-> FALSE]

idleWorker == [pc |-> "idle", job |-> 0]

(***************************************************************************)
(* The multipart engine: UploadFileMultipart (sequential) and              *)
(* UploadFileMultipartParallel with ParallelMultipartUploader.             *)
(***************************************************************************)
MPFrame == UNCHANGED <<upVars, dirVars, poolVars, taskVars, sideVars>>

\* NewParallelMultipartUploader leaves the progressBar field unset, and no
\* other code assigns it
progressBar == "nil"

idlePoolWorker == [pc |-> "idle", job |-> 0]
emptyReport == [TaskResults |-> <<>>, TotalTasks |-> 0, SuccessTasks |-> 0,
                FailedTasks |-> 0, SkippedTasks |-> 0]

TasksIdle ==
    /\ tasks = <<>>
    /\ trPc = "idle"
    /\ trIdx = 0
    /\ report = emptyReport

MaxStopCallers == 2
StopCallers == 1..MaxStopCallers
idleStopCaller == [pc |-> "idle", calls |-> 0]

MaxTrackerCallers == 2
MaxTrackerCalls == 3
TrackerCallers == 1..MaxTrackerCallers
\* NewProgressTracker(totalFiles, totalBytes)
NewProgressTracker(totalFiles) ==
    [totalFiles |-> totalFiles, processedFiles |-> 0, failedFiles |-> 0, skippedFiles |-> 0,
     activeWorkers |-> [w \in {} |-> ""], mu |-> [writer |-> 0, readers |-> {}]]
idleTrackerCaller == [pc |-> "idle", op |-> "", id |-> 0, name |-> "", bytes |-> 0, ret |-> <<>>]
emptyTrackerLog ==
    [calls |-> 0, processed |-> 0, bytes |-> 0, failed |-> 0, skipped |-> 0,
     last |-> [w \in TrackerCallers |-> ""]]

\* nothing reported to a progress tracker
ProgressIdle ==
    /\ processedBytes = 0
    /\ pt = NewProgressTracker(0)
    /\ ptPc = [g \in TrackerCallers |-> idleTrackerCaller]
    /\ ptLog = emptyTrackerLog

\* no goroutine is calling Stop and no pool operation has panicked
StopIdle ==
    /\ stopPc = [c \in StopCallers |-> idleStopCaller]
    /\ poolPanic = ""

\* no function is being applied
ScanIdle ==
    /\ args = <<>>
    /\ ret = <<>>

SideIdle ==
    /\ ProgressIdle
    /\ StopIdle
    /\ ScanIdle

DirIdle ==
    /\ dirPc = "idle"
    /\ dirIdx = 0
    /\ dirResults = <<>>
    /\ dirErr = FALSE
    /\ puJobQueue = <<>>
    /\ puJobQueueClosed = FALSE
    /\ resultQueue = <<>>
    /\ resultQueueClosed = FALSE
    /\ poolCancelled = FALSE
    /\ stopped = FALSE
    /\ pw = [w \in 1..MaxPoolWorkers |-> idlePoolWorker]
    /\ collectedResults = <<>>
    /\ stats = [uploaded |-> 0, failed |-> 0, totalBytes |-> 0]

UploaderIdle ==
    /\ uploadConfig = [DryRun |-> FALSE, MaxRetries |-> 0, ParallelUploads |-> 1, MultipartThreshold |-> 0]
    /\ files = <<>>
    /\ rt = <<>>
    /\ attempts = <<>>
    /\ DirIdle
    /\ TasksIdle

Chunk == EffectiveChunk(mpIn.variant, mpIn.chunkSize)
Workers == 1..mpIn.numWorkers
MPReturned == mpPc \in {"done", "panicked"}

InitMP ==
    /\ ctxCancelled = FALSE
    /\ calls = <<>>
    /\ mpIn \in {in \in [variant : {"seq", "par"}, fileSize : FileSizes,
                         chunkSize : ChunkSizes, numWorkers : PartWorkers] :
                    in.variant = "seq" => in.numWorkers = 1}
    /\ mpPc = "start"
    /\ uploadID = 0
    /\ parts = <<>>
    /\ partNumber = 0
    /\ offset = 0
    /\ uploadErr = FALSE
    /\ fileOpen = FALSE
    /\ jobQueue = <<>>
    /\ jobQueueClosed = FALSE
    /\ errChan = <<>>
    /\ errChanClosed = FALSE
    /\ innerCancelled = FALSE
    /\ wk = [w \in PartWorkers |-> idleWorker]
    /\ UploaderIdle
    /\ SideIdle

\* the caller cancels its context while the upload runs
Cancel ==
    /\ ~ctxCancelled
    /\ ~MPReturned
    /\ ctxCancelled' = TRUE
    /\ calls' = Append(calls, Call("cancel", uploadID, CallerCtx, 0, <<>>, TRUE))
    /\ UNCHANGED mpVars
    /\ MPFrame

\* os.Open, file.Stat and the "Starting ... multipart upload" log line, whose
\* argument (fileSize+chunkSize-1)/chunkSize divides by the chunk size
OpenFile ==
    /\ mpPc = "start"
    /\ \E ok \in BOOLEAN :
         IF ~ok THEN mpPc' = "done" /\ fileOpen' = FALSE
         ELSE IF Chunk = 0 THEN mpPc' = "panicked" /\ fileOpen' = FALSE
         ELSE mpPc' = "create" /\ fileOpen' = TRUE
    /\ UNCHANGED <<envVars, mpIn, uploadID, parts, partNumber, offset, uploadErr,
                   jobQueue, jobQueueClosed, errChan, errChanClosed, innerCancelled, wk>>
    /\ MPFrame

\* *result.UploadId: the object store issues an upload-id it has not issued
\* before
NewUploadID == Cardinality({i \in DOMAIN calls : calls[i].op = "create" /\ calls[i].ok}) + 1

PartsOfEarlierManager == parts

\* the parts of the new manager: make([]types.CompletedPart, 0)
NewManagerParts == <<>>

\* cm.CreateMultipartUpload(ctx, ...): a new MultipartUploadManager for the
\* upload-id the store returns
CreateMultipartUpload ==
    /\ mpPc = "create"
    /\ \E ok \in Outcomes(CallerCtx) :
         /\ calls' = Append(calls, Call("create", IF ok THEN NewUploadID ELSE 0, CallerCtx, 0, <<>>, ok))
         /\ IF ok
            THEN /\ uploadID' = NewUploadID
                 /\ parts' = NewManagerParts
                 /\ partNumber' = 0
                 /\ mpPc' = IF mpIn.variant = "seq" THEN "loop" ELSE "upload"
            ELSE /\ UNCHANGED <<uploadID, parts, partNumber>>
                 /\ mpPc' = "close"
    /\ UNCHANGED <<ctxCancelled, mpIn, offset, uploadErr, fileOpen,
                   jobQueue, jobQueueClosed, errChan, errChanClosed, innerCancelled, wk>>
    /\ MPFrame

\* one iteration of the sequential loop: file.Seek, then mum.UploadPart
SeqUploadPart ==
    /\ mpIn.variant = "seq"
    /\ mpPc = "loop"
    /\ offset < mpIn.fileSize
    /\ LET partSize == PartSize(mpIn.fileSize, Chunk, offset) IN
       \E seekOk \in BOOLEAN :
         IF ~seekOk
         THEN /\ uploadErr' = TRUE
              /\ mpPc' = "defer"
              /\ calls' = Append(calls, FileOpFailure("seek", uploadID))
              /\ UNCHANGED <<parts, partNumber, offset>>
         ELSE \E ok \in Outcomes(CallerCtx) :
              /\ partNumber' = partNumber + 1
              /\ calls' = Append(calls, Call("upload_part", uploadID, CallerCtx, partNumber', <<>>, ok))
              /\ IF ok
                 THEN /\ parts' = Append(parts, [PartNumber |-> partNumber', ETag |-> <<uploadID, partNumber'>>])
                      /\ offset' = offset + partSize
                      /\ UNCHANGED <<uploadErr, mpPc>>
                 ELSE /\ uploadErr' = TRUE
                      /\ mpPc' = "defer"
                      /\ UNCHANGED <<parts, offset>>
    /\ UNCHANGED <<ctxCancelled, mpIn, uploadID, fileOpen,
                   jobQueue, jobQueueClosed, errChan, errChanClosed, innerCancelled, wk>>
    /\ MPFrame

\* mum.CompleteMultipartUpload(ctx): sorts mum.parts and submits them
CompleteMultipartUpload ==
    /\ \/ mpIn.variant = "seq" /\ mpPc = "loop" /\ offset >= mpIn.fileSize
       \/ mpIn.variant = "par" /\ mpPc = "complete"
    /\ parts' = CompletedParts(parts)
    /\ \E ok \in Outcomes(CallerCtx) :
         /\ calls' = Append(calls, Call("complete", uploadID, CallerCtx, 0,
                                        [i \in 1..Len(parts') |-> parts'[i].PartNumber], ok))
         /\ uploadErr' = ~ok
    /\ mpPc' = "defer"
    /\ UNCHANGED <<ctxCancelled, mpIn, uploadID, partNumber, offset, fileOpen,
                   jobQueue, jobQueueClosed, errChan, errChanClosed, innerCancelled, wk>>
    /\ MPFrame

AbortOnlyWhenCancelled == uploadErr /\ ctxCancelled

\* the condition of the deferred closure: if uploadErr != nil
ShouldAbort == uploadErr

\* the deferred closure: if uploadErr != nil, mum.AbortMultipartUpload(context.Background())
DeferredAbort ==
    /\ mpPc = "defer"
    /\ IF ShouldAbort
       THEN \E ok \in Outcomes(AbortContext) :
              calls' = Append(calls, Call("abort", uploadID, AbortContext, 0, <<>>, ok))
       ELSE calls' = calls
    /\ mpPc' = "close"
    /\ UNCHANGED <<ctxCancelled, mpIn, uploadID, parts, partNumber, offset, uploadErr, fileOpen,
                   jobQueue, jobQueueClosed, errChan, errChanClosed, innerCancelled, wk>>
    /\ MPFrame

\* the deferred file.Close(), then the function returns
CloseFile ==
    /\ mpPc = "close"
    /\ fileOpen' = FALSE
    /\ mpPc' = "done"
    /\ UNCHANGED <<envVars, mpIn, uploadID, parts, partNumber, offset, uploadErr,
                   jobQueue, jobQueueClosed, errChan, errChanClosed, innerCancelled, wk>>
    /\ MPFrame

\* ParallelMultipartUploader.Upload up to the start of the workers:
\* context.WithCancel, make(chan ...), go pmu.worker(...)
UploadStart ==
    /\ mpPc = "upload"
    /\ wk' = [w \in PartWorkers |-> IF w \in Workers THEN [pc |-> "recv", job |-> 0] ELSE wk[w]]
    /\ partNumber' = 0
    /\ offset' = 0
    /\ mpPc' = "gen"
    /\ UNCHANGED <<envVars, mpIn, uploadID, parts, uploadErr, fileOpen,
                   jobQueue, jobQueueClosed, errChan, errChanClosed, innerCancelled>>
    /\ MPFrame

\* one iteration of the job loop: jobQueue <- PartJob{...} (capacity totalParts)
GenerateJob ==
    /\ mpPc = "gen"
    /\ offset < mpIn.fileSize
    /\ Len(jobQueue) < TotalParts(mpIn.fileSize, Chunk)
    /\ LET partSize == PartSize(mpIn.fileSize, Chunk, offset) IN
         /\ partNumber' = partNumber + 1
         /\ jobQueue' = Append(jobQueue, [PartNumber |-> partNumber', Offset |-> offset, Size |-> partSize])
         /\ offset' = offset + partSize
    /\ UNCHANGED <<envVars, mpIn, mpPc, uploadID, parts, uploadErr, fileOpen,
                   jobQueueClosed, errChan, errChanClosed, innerCancelled, wk>>
    /\ MPFrame

\* close(jobQueue) and the start of the goroutine that waits for the workers
CloseJobQueue ==
    /\ mpPc = "gen"
    /\ offset >= mpIn.fileSize
    /\ jobQueueClosed' = TRUE
    /\ mpPc' = "errloop"
    /\ UNCHANGED <<envVars, mpIn, uploadID, parts, partNumber, offset, uploadErr, fileOpen,
                   jobQueue, errChan, errChanClosed, innerCancelled, wk>>
    /\ MPFrame

SomeWorkerExited == \E w \in Workers : wk[w].pc = "done"

\* pmu.workerWg.Wait() returns
WorkersExited == \A w \in Workers : wk[w].pc = "done"

\* go func() { pmu.workerWg.Wait(); close(errChan) }()
WaitWorkers ==
    /\ jobQueueClosed
    /\ ~errChanClosed
    /\ WorkersExited
    /\ errChanClosed' = TRUE
    /\ UNCHANGED <<envVars, mpIn, mpPc, uploadID, parts, partNumber, offset, uploadErr, fileOpen,
                   jobQueue, jobQueueClosed, errChan, innerCancelled, wk>>
    /\ MPFrame

\* for err := range errChan: the first error cancels and Upload returns it;
\* the caller sets uploadErr
UploadError ==
    /\ mpPc = "errloop"
    /\ errChan # <<>>
    /\ errChan' = Tail(errChan)
    /\ innerCancelled' = TRUE
    /\ uploadErr' = TRUE
    /\ mpPc' = "defer"
    /\ UNCHANGED <<envVars, mpIn, uploadID, parts, partNumber, offset, fileOpen,
                   jobQueue, jobQueueClosed, errChanClosed, wk>>
    /\ MPFrame

\* errChan is closed and drained: Upload returns nil (its deferred cancel() runs)
UploadReturnNil ==
    /\ mpPc = "errloop"
    /\ errChan = <<>>
    /\ errChanClosed
    /\ innerCancelled' = TRUE
    /\ mpPc' = "complete"
    /\ UNCHANGED <<envVars, mpIn, uploadID, parts, partNumber, offset, uploadErr, fileOpen,
                   jobQueue, jobQueueClosed, errChan, errChanClosed, wk>>
    /\ MPFrame

RoomForAllButOne == mpIn.numWorkers - 1
\* errChan := make(chan error, pmu.numWorkers)
ErrChanCap == mpIn.numWorkers

LeftInQueue(q) == q

\* the channel after a receive: the job goes to one receiver only
AfterReceive(q) == Tail(q)

\* worker: for job := range jobs
WorkerRecv(w) ==
    /\ wk[w].pc = "recv"
    /\ IF jobQueue # <<>>
       THEN /\ wk' = [wk EXCEPT ![w] = [pc |-> "check", job |-> Head(jobQueue)]]
            /\ jobQueue' = AfterReceive(jobQueue)
       ELSE /\ jobQueueClosed
            /\ wk' = [wk EXCEPT ![w] = [pc |-> "done", job |-> 0]]
            /\ jobQueue' = jobQueue
    /\ UNCHANGED <<envVars, mpIn, mpPc, uploadID, parts, partNumber, offset, uploadErr, fileOpen,
                   jobQueueClosed, errChan, errChanClosed, innerCancelled>>
    /\ MPFrame

\* worker: select { case <-ctx.Done(): errChan <- ctx.Err(); return; default: }
WorkerCheck(w) ==
    /\ wk[w].pc = "check"
    /\ IF CtxDone("upload")
       THEN /\ Len(errChan) < ErrChanCap
            /\ errChan' = Append(errChan, "ctx")
            /\ wk' = [wk EXCEPT ![w] = [pc |-> "done", job |-> 0]]
       ELSE /\ wk' = [wk EXCEPT ![w].pc = "read"]
            /\ errChan' = errChan
    /\ UNCHANGED <<envVars, mpIn, mpPc, uploadID, parts, partNumber, offset, uploadErr, fileOpen,
                   jobQueue, jobQueueClosed, errChanClosed, innerCancelled>>
    /\ MPFrame

\* worker: pmu.file.ReadAt(buffer, job.Offset)
WorkerRead(w) ==
    /\ wk[w].pc = "read"
    /\ \E ok \in (IF fileOpen THEN {TRUE, FALSE} ELSE {FALSE}) :
         IF ok
         THEN /\ wk' = [wk EXCEPT ![w].pc = "upload"]
              /\ errChan' = errChan
              /\ calls' = calls
         ELSE /\ Len(errChan) < ErrChanCap
              /\ errChan' = Append(errChan, "read")
              /\ wk' = [wk EXCEPT ![w] = [pc |-> "done", job |-> 0]]
              /\ calls' = Append(calls, FileOpFailure("read", uploadID))
    /\ UNCHANGED <<ctxCancelled, mpIn, mpPc, uploadID, parts, partNumber, offset, uploadErr, fileOpen,
                   jobQueue, jobQueueClosed, errChanClosed, innerCancelled>>
    /\ MPFrame

\* worker: pmu.manager.UploadPartWithNumber(ctx, ...) is called
WorkerUploadBegin(w) ==
    /\ wk[w].pc = "upload"
    /\ wk' = [wk EXCEPT ![w].pc = "inflight"]
    /\ UNCHANGED <<envVars, mpIn, mpPc, uploadID, parts, partNumber, offset, uploadErr, fileOpen,
                   jobQueue, jobQueueClosed, errChan, errChanClosed, innerCancelled>>
    /\ MPFrame

\* worker: UploadPartWithNumber returns; a success is recorded in mum.parts
\* ProgressTracker.IncrementProcessed(bytes)
IncrementProcessed(bytes) == processedBytes' = processedBytes + bytes

WorkerUploadEnd(w) ==
    /\ wk[w].pc = "inflight"
    /\ LET n == wk[w].job.PartNumber IN
       \E ok \in Outcomes("upload") :
         /\ calls' = Append(calls, Call("upload_part", uploadID, "upload", n, <<>>, ok))
         /\ IF ok
            THEN /\ parts' = Append(parts, [PartNumber |-> n, ETag |-> <<uploadID, n>>])
                 /\ wk' = [wk EXCEPT ![w] = [pc |-> "recv", job |-> 0]]
                 /\ errChan' = errChan
                 \* if pmu.progressBar != nil { pmu.progressBar.IncrementProcessed(job.Size) }
                 /\ IF progressBar # "nil" THEN IncrementProcessed(wk[w].job.Size)
                    ELSE processedBytes' = processedBytes
            ELSE /\ Len(errChan) < ErrChanCap
                 /\ errChan' = Append(errChan, "upload")
                 /\ wk' = [wk EXCEPT ![w] = [pc |-> "done", job |-> 0]]
                 /\ parts' = parts
                 /\ processedBytes' = processedBytes
    /\ UNCHANGED <<ctxCancelled, mpIn, mpPc, uploadID, partNumber, offset, uploadErr, fileOpen,
                   jobQueue, jobQueueClosed, errChanClosed, innerCancelled>>
    /\ UNCHANGED <<upVars, dirVars, poolVars, taskVars, stopPc, poolPanic, args, ret, trackerVars>>

worker(w) ==
    \/ WorkerRecv(w)
    \/ WorkerCheck(w)
    \/ WorkerRead(w)
    \/ WorkerUploadBegin(w)
    \/ WorkerUploadEnd(w)

UploadFileMultipart ==
    \/ OpenFile
    \/ CreateMultipartUpload
    \/ SeqUploadPart
    \/ CompleteMultipartUpload
    \/ DeferredAbort
    \/ CloseFile

Upload ==
    \/ UploadStart
    \/ GenerateJob
    \/ CloseJobQueue
    \/ WaitWorkers
    \/ UploadError
    \/ UploadReturnNil

MPEngine == UploadFileMultipart \/ Upload \/ \E w \in Workers : worker(w)

NextMP == MPEngine \/ Cancel

SpecMP == InitMP /\ [][NextMP]_vars

\* the goroutines are scheduled fairly; the caller need not cancel.  Checked
\* on uploads of files whose size is a whole number of size steps (what is left of the
\* file at each step does not bear on what is reached in the end)
InitMPFair ==
    /\ InitMP
    /\ mpIn.fileSize % SizeStep = 0

SpecMPFair == InitMPFair /\ [][NextMP]_vars /\ WF_vars(MPEngine)

(***************************************************************************)
(* time.Duration arithmetic: int64 nanoseconds, kept as eight bytes        *)
(* (little-endian, two's complement) so that it wraps as in Go.            *)
(***************************************************************************)
Pow2(n) == IF n = 0 THEN 1 ELSE IF n = 1 THEN 2 ELSE IF n = 2 THEN 4 ELSE IF n = 3 THEN 8
           ELSE IF n = 4 THEN 16 ELSE IF n = 5 THEN 32 ELSE IF n = 6 THEN 64 ELSE 128
Int64(n) == [i \in 0..7 |-> IF i = 0 THEN n % 256
                            ELSE IF i = 1 THEN (n \div 256) % 256
                            ELSE IF i = 2 THEN (n \div 65536) % 256
                            ELSE IF i = 3 THEN (n \div 16777216) % 256 ELSE 0]
\* 1 << n in int64
ShiftLeftOne(n) == [i \in 0..7 |-> IF n < 64 /\ n \div 8 = i THEN Pow2(n % 8) ELSE 0]
RECURSIVE Column(_, _, _, _)
Column(a, b, k, i) == IF i > k THEN 0 ELSE a[i] * b[k - i] + Column(a, b, k, i + 1)
RECURSIVE Carry(_, _, _)
Carry(a, b, k) == IF k = 0 THEN 0 ELSE (Column(a, b, k - 1, 0) + Carry(a, b, k - 1)) \div 256
\* a * b in int64
Mul64(a, b) == [k \in 0..7 |-> (Column(a, b, k, 0) + Carry(a, b, k)) % 256]
IsNegative(a) == a[7] >= 128
\* a > b in int64
Greater64(a, b) ==
    IF IsNegative(a) # IsNegative(b) THEN IsNegative(b)
    ELSE \E i \in 0..7 : a[i] > b[i] /\ \A j \in (i + 1)..7 : a[j] = b[j]
Second == Int64(1000000000)
MaxDelaySeconds == 30

\* delay := time.Duration(1<<uint(attempt-1)) * time.Second, capped at 30 s
BackoffDelay(attempt) ==
    LET delay == Mul64(ShiftLeftOne(attempt - 1), Second)
        cap == Mul64(Int64(MaxDelaySeconds), Second)
    IN IF Greater64(delay, cap) THEN cap ELSE delay

(***************************************************************************)
(* Uploader.UploadFile and Uploader.UploadFileWithRetry.                   *)
(***************************************************************************)
MultipartThreshold == 100 * MiB
UploadSizes == {0, 8, MultipartThreshold}
RetryCounts == {-1, 0, 1, 2, MaxRetries}
Threads == 0..MaxPoolWorkers

Result(f, success, err, skipped, size) ==
    [Source |-> f, Success |-> success, Error |-> err, SkippedReason |-> skipped, Size |-> size]
NoResult == Result(0, FALSE, "", "", 0)
idleRetry == [pc |-> "idle", file |-> 0, attempt |-> 0, result |-> NoResult, err |-> ""]

ThreadCtx(t) == IF t = 0 THEN CallerCtx ELSE "pool"

NeverSkips(cfg) == FALSE
\* if u.uploadConfig.DryRun
DryRunSkips(cfg) == cfg.DryRun

StatFailureWithoutError(f) ==
    [result |-> Result(f, FALSE, "", "", 0), via |-> "none", op |-> "none", err |-> "stat"]
\* fileInfo, err := u.scanner.GetFileInfo(filePath); if err != nil { return ... }
StatFailure(f) ==
    [result |-> Result(f, FALSE, "stat", "", 0), via |-> "none", op |-> "none", err |-> "stat"]

AboveThreshold(size, cfg) == size > cfg.MultipartThreshold
AlwaysMultipart(size, cfg) == TRUE
\* if fileInfo.Size >= u.uploadConfig.MultipartThreshold
UsesMultipart(size, cfg) == size >= cfg.MultipartThreshold

AlwaysSequentialEngine(cfg) == "UploadFileMultipart"
\* if u.uploadConfig.ParallelUploads > 1
MultipartVariant(cfg) ==
    IF cfg.ParallelUploads > 1 THEN "UploadFileMultipartParallel" ELSE "UploadFileMultipart"

\* UploadFile(ctx, filePath, ...): the result and the error it returns, the
\* client method it calls (via) and the transport operation issued (op; for
\* the multipart engine the variant, whose calls the engine's model issues).
\* ClientManager.UploadFile opens the file before it calls PutObject.
UploadFileOutcomes(c, f) ==
    LET size == files[f].Size
        oks == IF files[f].flaky \/ CtxDone(c) THEN Outcomes(c) ELSE {TRUE}
        Returned(via, op, ok, e) ==
            [result |-> IF ok THEN Result(f, TRUE, "", "", size)
                              ELSE Result(f, FALSE, e, "", size),
             via |-> via, op |-> op, err |-> IF ok THEN "" ELSE e]
    IN
    IF ~files[f].statOk
    THEN {StatFailure(f)}
    ELSE IF DryRunSkips(uploadConfig)
    THEN {[result |-> Result(f, TRUE, "", "dry run mode", size),
           via |-> "none", op |-> "none", err |-> ""]}
    ELSE IF UsesMultipart(size, uploadConfig)
    THEN LET v == MultipartVariant(uploadConfig)
             op == IF v = "UploadFileMultipartParallel" THEN "multipart_parallel" ELSE "multipart"
         IN {Returned(v, op, ok, "transport") : ok \in oks}
    ELSE IF ~files[f].openOk
    THEN {Returned("UploadFile", "none", FALSE, "open")}
    ELSE {Returned("UploadFile", "put_object", ok, "transport") : ok \in oks}

\* if maxRetries < 0 { maxRetries = 0 }
ClampRetries(m) == IF m < 0 THEN 0 ELSE m

LoopOneMore(attempt, maxRetries) == attempt <= maxRetries + 1
\* for attempt := 0; attempt <= maxRetries; attempt++
LoopContinues(attempt, maxRetries) == attempt <= maxRetries

\* result, lastErr = u.UploadFile(ctx, ...); return on success, else attempt++
RetryAttempt(t, slept, delay) ==
    LET f == rt[t].file IN
    \E o \in UploadFileOutcomes(ThreadCtx(t), f) :
      /\ attempts' = [attempts EXCEPT ![f] = Append(@,
             [attempt |-> rt[t].attempt, slept |-> slept, delay |-> delay,
              cancelled |-> ctxCancelled, via |-> o.via, op |-> o.op,
              ok |-> o.result.Success, error |-> o.result.Error, err |-> o.err])]
      /\ rt' = [rt EXCEPT ![t] =
             IF o.err = ""
             THEN [@ EXCEPT !.pc = "returned", !.result = o.result, !.err = ""]
             ELSE [@ EXCEPT !.pc = "loop", !.attempt = @ + 1, !.result = o.result]]

\* one pass through the head of the retry loop: the loop condition, the
\* cancellation check, and for the first attempt the upload itself
RetryLoop(t) ==
    /\ rt[t].pc = "loop"
    /\ LET f == rt[t].file
           maxRetries == ClampRetries(uploadConfig.MaxRetries)
       IN IF ~LoopContinues(rt[t].attempt, maxRetries)
          THEN /\ rt' = [rt EXCEPT ![t] = [@ EXCEPT !.pc = "returned", !.err = "failed",
                                             !.result = [rt[t].result EXCEPT !.Error = "failed after attempts"]]]
               /\ attempts' = attempts
          ELSE IF CtxDone(ThreadCtx(t))
          THEN /\ rt' = [rt EXCEPT ![t] = [@ EXCEPT !.pc = "returned", !.err = "ctx",
                                             !.result = Result(f, FALSE, "ctx", "", 0)]]
               /\ attempts' = attempts
          ELSE IF rt[t].attempt > 0
          THEN /\ rt' = [rt EXCEPT ![t].pc = "sleep"]
               /\ attempts' = attempts
          ELSE RetryAttempt(t, FALSE, Int64(0))
    /\ UNCHANGED <<envVars, mpVars, uploadConfig, files, dirVars, poolVars, taskVars, sideVars>>

\* time.Sleep(delay) returns and the retry is made
RetryWake(t) ==
    /\ rt[t].pc = "sleep"
    /\ RetryAttempt(t, TRUE, BackoffDelay(rt[t].attempt))
    /\ UNCHANGED <<envVars, mpVars, uploadConfig, files, dirVars, poolVars, taskVars, sideVars>>

UploadFileWithRetry(t) == RetryLoop(t) \/ RetryWake(t)

\* the caller cancels its context while UploadFileWithRetry runs
CancelRetry ==
    /\ ~ctxCancelled
    /\ rt[0].pc \in {"loop", "sleep"}
    /\ ctxCancelled' = TRUE
    /\ UNCHANGED <<calls, mpVars, upVars, dirVars, poolVars, taskVars, sideVars>>

MPIdle ==
    /\ mpIn = [variant |-> "seq", fileSize |-> 0, chunkSize |-> 0, numWorkers |-> 1]
    /\ mpPc = "idle"
    /\ uploadID = 0
    /\ parts = <<>>
    /\ partNumber = 0
    /\ offset = 0
    /\ uploadErr = FALSE
    /\ fileOpen = FALSE
    /\ jobQueue = <<>>
    /\ jobQueueClosed = FALSE
    /\ errChan = <<>>
    /\ errChanClosed = FALSE
    /\ innerCancelled = FALSE
    /\ wk = [w \in PartWorkers |-> idleWorker]

InitRetry ==
    /\ ctxCancelled = FALSE
    /\ calls = <<>>
    /\ MPIdle
    /\ DirIdle
    /\ TasksIdle
    /\ SideIdle
    /\ uploadConfig \in [DryRun : BOOLEAN, MaxRetries : RetryCounts,
                         ParallelUploads : {1, 2}, MultipartThreshold : {MultipartThreshold}]
    /\ files \in [{1} -> [Size : UploadSizes, statOk : BOOLEAN, openOk : BOOLEAN, flaky : {TRUE}]]
    /\ rt = [t \in Threads |-> IF t = 0 THEN [idleRetry EXCEPT !.pc = "loop", !.file = 1]
                                        ELSE idleRetry]
    /\ attempts = [f \in {1} |-> <<>>]

NextRetry == UploadFileWithRetry(0) \/ CancelRetry

SpecRetry == InitRetry /\ [][NextRetry]_vars

(***************************************************************************)
(* UploadFileWithRetry on a file at or above the multipart threshold: each *)
(* attempt is a run of the multipart engine.  The workers of a failed      *)
(* attempt work on that attempt's manager, channels and file handle, which *)
(* the next attempt does not share; they exit before the next attempt      *)
(* starts.                                                                 *)
(***************************************************************************)
\* u.uploadConfig.MultipartChunksize
MultipartChunksize == MultipartThreshold \div 2

EngineAtRest ==
    /\ mpPc \in {"idle", "done"}
    /\ \A w \in PartWorkers : wk[w].pc \in {"idle", "done"}

\* the error UploadFileMultipart / UploadFileMultipartParallel returns is nil:
\* the call created a session and completed it
EngineReturnedNil ==
    /\ ~uploadErr
    /\ \E i \in DOMAIN calls : calls[i].op = "complete" /\ calls[i].id = uploadID /\ calls[i].ok

\* UploadFile calls u.client.UploadFileMultipartParallel or
\* u.client.UploadFileMultipart: the locals of a new call (the manager of the
\* earlier call stays as it is until CreateMultipartUpload makes a new one)
CallMultipart(t) ==
    /\ rt' = [rt EXCEPT ![t].pc = "call"]
    /\ mpIn' = [variant |-> IF MultipartVariant(uploadConfig) = "UploadFileMultipartParallel"
                            THEN "par" ELSE "seq",
                fileSize |-> files[rt[t].file].Size,
                chunkSize |-> MultipartChunksize,
                numWorkers |-> uploadConfig.ParallelUploads]
    /\ mpPc' = "start"
    /\ UNCHANGED <<uploadID, parts, partNumber>>
    /\ offset' = 0
    /\ uploadErr' = FALSE
    /\ fileOpen' = FALSE
    /\ jobQueue' = <<>>
    /\ jobQueueClosed' = FALSE
    /\ errChan' = <<>>
    /\ errChanClosed' = FALSE
    /\ innerCancelled' = FALSE
    /\ wk' = [w \in PartWorkers |-> idleWorker]
    /\ attempts' = attempts

\* the head of the retry loop, up to the call of the engine
LargeRetryLoop(t) ==
    /\ rt[t].pc = "loop"
    /\ EngineAtRest
    /\ LET f == rt[t].file
           maxRetries == ClampRetries(uploadConfig.MaxRetries)
       IN IF ~LoopContinues(rt[t].attempt, maxRetries)
          THEN /\ rt' = [rt EXCEPT ![t] = [@ EXCEPT !.pc = "returned", !.err = "failed",
                                             !.result = [rt[t].result EXCEPT !.Error = "failed after attempts"]]]
               /\ UNCHANGED <<mpVars, attempts>>
          ELSE IF CtxDone(ThreadCtx(t))
          THEN /\ rt' = [rt EXCEPT ![t] = [@ EXCEPT !.pc = "returned", !.err = "ctx",
                                             !.result = Result(f, FALSE, "ctx", "", 0)]]
               /\ UNCHANGED <<mpVars, attempts>>
          ELSE IF rt[t].attempt > 0
          THEN /\ rt' = [rt EXCEPT ![t].pc = "sleep"]
               /\ UNCHANGED <<mpVars, attempts>>
          ELSE CallMultipart(t)
    /\ UNCHANGED <<envVars, uploadConfig, files, dirVars, poolVars, taskVars, sideVars>>

\* time.Sleep(delay) returns and the engine is called again
LargeRetryWake(t) ==
    /\ rt[t].pc = "sleep"
    /\ CallMultipart(t)
    /\ UNCHANGED <<envVars, uploadConfig, files, dirVars, poolVars, taskVars, sideVars>>

\* the engine returns: UploadFile builds the UploadResult, and
\* UploadFileWithRetry returns it or goes on to the next attempt
LargeRetryReturn(t) ==
    /\ rt[t].pc = "call"
    /\ mpPc = "done"
    /\ LET f == rt[t].file
           ok == EngineReturnedNil
           v == MultipartVariant(uploadConfig)
           res == IF ok THEN Result(f, TRUE, "", "", files[f].Size)
                       ELSE Result(f, FALSE, "transport", "", files[f].Size)
       IN /\ attempts' = [attempts EXCEPT ![f] = Append(@,
                 [attempt |-> rt[t].attempt, slept |-> rt[t].attempt > 0,
                  delay |-> IF rt[t].attempt > 0 THEN BackoffDelay(rt[t].attempt) ELSE Int64(0),
                  cancelled |-> ctxCancelled, via |-> v,
                  op |-> IF v = "UploadFileMultipartParallel" THEN "multipart_parallel" ELSE "multipart",
                  ok |-> ok, error |-> res.Error, err |-> res.Error])]
          /\ rt' = [rt EXCEPT ![t] =
                 IF ok
                 THEN [@ EXCEPT !.pc = "returned", !.result = res, !.err = ""]
                 ELSE [@ EXCEPT !.pc = "loop", !.attempt = @ + 1, !.result = res]]
    /\ UNCHANGED <<envVars, mpVars, uploadConfig, files, dirVars, poolVars, taskVars, sideVars>>

InitLarge ==
    /\ ctxCancelled = FALSE
    /\ calls = <<>>
    /\ MPIdle
    /\ DirIdle
    /\ TasksIdle
    /\ SideIdle
    /\ uploadConfig \in [DryRun : {FALSE}, MaxRetries : {1},
                         ParallelUploads : {1, 2}, MultipartThreshold : {MultipartThreshold}]
    /\ files \in [{1} -> [Size : {MultipartThreshold}, statOk : {TRUE}, openOk : {TRUE}, flaky : {TRUE}]]
    /\ rt = [t \in Threads |-> IF t = 0 THEN [idleRetry EXCEPT !.pc = "loop", !.file = 1]
                                        ELSE idleRetry]
    /\ attempts = [f \in {1} |-> <<>>]

NextLarge ==
    \/ LargeRetryLoop(0)
    \/ LargeRetryWake(0)
    \/ LargeRetryReturn(0)
    \/ MPEngine
    \/ Cancel

SpecLarge == InitLarge /\ [][NextLarge]_vars

(***************************************************************************)
(* Uploader.UploadDirectoryWithRetry: the sequential path and the worker   *)
(* pool (ParallelUploader) driven by UploadDirectoryParallel.              *)
(***************************************************************************)
MaxFiles == 3
DirFrame == UNCHANGED <<envVars, mpVars, uploadConfig, files, taskVars, sideVars>>

\* NewParallelUploader: if numWorkers < 1 { numWorkers = 1 }
NumWorkers == IF uploadConfig.ParallelUploads < 1 THEN 1 ELSE uploadConfig.ParallelUploads
PoolWorkers == 1..NumWorkers
ThreePerWorker == NumWorkers * 3
\* make(chan ..., numWorkers*2)
QueueCap == NumWorkers * 2

\* ParallelUploads > 1 and len(files) > ParallelUploads
PoolFromAsManyFiles ==
    uploadConfig.ParallelUploads > 1 /\ Len(files) >= uploadConfig.ParallelUploads

\* if u.uploadConfig.ParallelUploads > 1 && len(files) > u.uploadConfig.ParallelUploads
UsePool == uploadConfig.ParallelUploads > 1 /\ Len(files) > uploadConfig.ParallelUploads

\* ScanDirectory, the choice of the path, and on the pool path
\* NewParallelUploader, Start and the start of the collector goroutine
DirStart ==
    /\ dirPc = "start"
    /\ \E scanOk \in BOOLEAN :
         IF ~scanOk
         THEN /\ dirPc' = "returned"
              /\ dirErr' = TRUE
              /\ pw' = pw
         ELSE IF UsePool
         THEN /\ dirPc' = "submit"
              /\ dirErr' = FALSE
              /\ pw' = [w \in 1..MaxPoolWorkers |->
                          IF w \in PoolWorkers THEN [pc |-> "recv", job |-> 0] ELSE pw[w]]
         ELSE /\ dirPc' = "seq"
              /\ dirErr' = FALSE
              /\ pw' = pw
    /\ UNCHANGED <<rt, attempts, dirIdx, dirResults, puJobQueue, puJobQueueClosed, resultQueue,
                   resultQueueClosed, poolCancelled, stopped, collectedResults, stats>>
    /\ DirFrame

\* uploadDirectorySequentialWithRetry: results = append(results, *result) for
\* the file just uploaded, then UploadFileWithRetry for the next file, or return
StopsAtFailure(done) ==
    done < Len(files) /\ (rt[0].pc = "returned" => rt[0].result.Success)

\* for _, fileInfo := range files: the loop has no break and no return
SequentialContinues(done) == done < Len(files)

SequentialStep ==
    /\ dirPc = "seq"
    /\ rt[0].pc \in {"idle", "returned"}
    /\ LET done == IF rt[0].pc = "returned" THEN dirIdx + 1 ELSE dirIdx IN
         /\ dirResults' = IF rt[0].pc = "returned" THEN Append(dirResults, rt[0].result)
                          ELSE dirResults
         /\ dirIdx' = done
         /\ IF SequentialContinues(done)
            THEN /\ rt' = [rt EXCEPT ![0] = [idleRetry EXCEPT !.pc = "loop", !.file = done + 1]]
                 /\ dirPc' = dirPc
            ELSE /\ rt' = [rt EXCEPT ![0] = idleRetry]
                 /\ dirPc' = "returned"
    /\ UNCHANGED <<attempts, dirErr, poolVars>>
    /\ DirFrame

\* UploadDirectoryParallel: parallelUploader.SubmitJob(job) for the next file;
\* a SubmitJob error ends the loop
SubmitJob ==
    /\ dirPc = "submit"
    /\ dirIdx < Len(files)
    /\ \/ /\ Len(puJobQueue) < QueueCap
          /\ puJobQueue' = Append(puJobQueue, dirIdx + 1)
          /\ dirIdx' = dirIdx + 1
          /\ dirPc' = dirPc
       \/ /\ CtxDone("pool")
          /\ dirPc' = "stop"
          /\ UNCHANGED <<puJobQueue, dirIdx>>
    /\ UNCHANGED <<rt, attempts, dirResults, dirErr, puJobQueueClosed, resultQueue,
                   resultQueueClosed, poolCancelled, stopped, pw, collectedResults, stats>>
    /\ DirFrame

\* the loop over files ends; Stop: stopped.CompareAndSwap, close(pu.jobQueue)
WithoutWaiting == TRUE
SomePoolWorkerExited == \E w \in PoolWorkers : pw[w].pc = "done"

\* pu.wg.Wait() returns
PoolWorkersExited == \A w \in PoolWorkers : pw[w].pc = "done"

StopClose ==
    /\ \/ dirPc = "submit" /\ dirIdx = Len(files)
       \/ dirPc = "stop"
    /\ ~stopped
    /\ stopped' = TRUE
    /\ puJobQueueClosed' = TRUE
    /\ dirPc' = "wait"
    /\ UNCHANGED <<rt, attempts, dirIdx, dirResults, dirErr, puJobQueue, resultQueue,
                   resultQueueClosed, poolCancelled, pw, collectedResults, stats>>
    /\ DirFrame

\* Stop: pu.wg.Wait() returns; close(pu.resultQueue); pu.cancel()
StopFinish ==
    /\ dirPc = "wait"
    /\ PoolWorkersExited
    /\ resultQueueClosed' = TRUE
    /\ poolCancelled' = TRUE
    /\ dirPc' = "collect"
    /\ UNCHANGED <<rt, attempts, dirIdx, dirResults, dirErr, puJobQueue, puJobQueueClosed,
                   resultQueue, stopped, pw, collectedResults, stats>>
    /\ DirFrame

\* the collector: for result := range parallelUploader.GetResults()
CollectResult ==
    /\ resultQueue # <<>>
    /\ collectedResults' = Append(collectedResults, Head(resultQueue))
    /\ resultQueue' = Tail(resultQueue)
    /\ UNCHANGED <<rt, attempts, dirVars, puJobQueue, puJobQueueClosed,
                   resultQueueClosed, poolCancelled, stopped, pw, stats>>
    /\ DirFrame

\* resultChan <- collectedResults meets results = <-resultChan; return
ReceiveResults ==
    /\ dirPc = "collect"
    /\ resultQueue = <<>>
    /\ resultQueueClosed
    /\ dirResults' = collectedResults
    /\ dirPc' = "returned"
    /\ UNCHANGED <<rt, attempts, dirIdx, dirErr, poolVars>>
    /\ DirFrame

\* pool worker: for job := range pu.jobQueue, the pu.ctx.Done() check, and
\* the call of UploadFileWithRetry(pu.ctx, ...)
PoolWorkerRecv(w) ==
    /\ pw[w].pc = "recv"
    /\ IF puJobQueue # <<>>
       THEN /\ puJobQueue' = Tail(puJobQueue)
            /\ IF CtxDone("pool")
               THEN /\ pw' = [pw EXCEPT ![w] = [pc |-> "done", job |-> 0]]
                    /\ rt' = rt
               ELSE /\ pw' = [pw EXCEPT ![w] = [pc |-> "retry", job |-> Head(puJobQueue)]]
                    /\ rt' = [rt EXCEPT ![w] = [idleRetry EXCEPT !.pc = "loop", !.file = Head(puJobQueue)]]
       ELSE /\ puJobQueueClosed
            /\ pw' = [pw EXCEPT ![w] = [pc |-> "done", job |-> 0]]
            /\ UNCHANGED <<puJobQueue, rt>>
    /\ UNCHANGED <<attempts, dirVars, puJobQueueClosed, resultQueue, resultQueueClosed,
                   poolCancelled, stopped, collectedResults, stats>>
    /\ DirFrame

EverySuccess(r) == r.Success
\* else if result.Success && result.SkippedReason == ""
CountsAsUploaded(r) == r.Success /\ r.SkippedReason = ""

\* pool worker: UploadFileWithRetry has returned; the counters are updated, then
\* select { case pu.resultQueue <- *result: case <-pu.ctx.Done(): return }
PoolWorkerSend(w) ==
    /\ pw[w].pc = "retry"
    /\ rt[w].pc = "returned"
    /\ LET r == rt[w].result IN
       stats' = IF rt[w].err # ""
                THEN [stats EXCEPT !.failed = @ + 1]
                ELSE IF CountsAsUploaded(r)
                THEN [stats EXCEPT !.uploaded = @ + 1, !.totalBytes = @ + r.Size]
                ELSE stats
    \* select { case pu.resultQueue <- *result: case <-pu.ctx.Done(): return }
    \* a send on a closed channel panics
    /\ \/ /\ resultQueueClosed
          /\ poolPanic' = "send on closed channel"
          /\ UNCHANGED <<resultQueue, pw>>
       \/ /\ ~resultQueueClosed
          /\ Len(resultQueue) < QueueCap
          /\ resultQueue' = Append(resultQueue, rt[w].result)
          /\ pw' = [pw EXCEPT ![w] = [pc |-> "recv", job |-> 0]]
          /\ poolPanic' = poolPanic
       \/ /\ CtxDone("pool")
          /\ resultQueue' = resultQueue
          /\ pw' = [pw EXCEPT ![w] = [pc |-> "done", job |-> 0]]
          /\ poolPanic' = poolPanic
    /\ rt' = [rt EXCEPT ![w] = idleRetry]
    /\ UNCHANGED <<attempts, dirVars, puJobQueue, puJobQueueClosed,
                   resultQueueClosed, poolCancelled, stopped, collectedResults>>
    /\ UNCHANGED <<envVars, mpVars, uploadConfig, files, taskVars, processedBytes, stopPc, args, ret, trackerVars>>

poolWorker(w) ==
    \/ PoolWorkerRecv(w)
    \/ UploadFileWithRetry(w)
    \/ PoolWorkerSend(w)

\* the caller cancels the context it passed to UploadDirectoryWithRetry
CancelDir ==
    /\ ~ctxCancelled
    /\ dirPc # "returned"
    /\ ctxCancelled' = TRUE
    /\ UNCHANGED <<calls, mpVars, upVars, dirVars, poolVars, taskVars, sideVars>>

UploadDirectoryParallel ==
    \/ SubmitJob
    \/ StopClose
    \/ StopFinish
    \/ CollectResult
    \/ ReceiveResults
    \/ \E w \in PoolWorkers : poolWorker(w)

UploadDirectoryWithRetry ==
    \/ DirStart
    \/ SequentialStep
    \/ UploadFileWithRetry(0)
    \/ UploadDirectoryParallel

\* the scanned files: 8 bytes each and readable; the first one may have
\* vanished since the scan, or its transport calls may fail
DirectoryFiles(n) ==
    {fs \in [1..n -> [Size : {8}, statOk : BOOLEAN, openOk : {TRUE}, flaky : BOOLEAN]] :
        /\ \A f \in 2..n : fs[f].statOk /\ ~fs[f].flaky
        /\ \A f \in 1..n : ~fs[f].statOk => ~fs[f].flaky}

InitDir ==
    /\ ctxCancelled = FALSE
    /\ calls = <<>>
    /\ MPIdle
    /\ uploadConfig \in [DryRun : BOOLEAN, MaxRetries : {1},
                         ParallelUploads : 1..MaxPoolWorkers, MultipartThreshold : {MultipartThreshold}]
    /\ \E n \in 0..MaxFiles : files \in DirectoryFiles(n)
    /\ rt = [t \in Threads |-> idleRetry]
    /\ attempts = [f \in DOMAIN files |-> <<>>]
    /\ dirPc = "start"
    /\ dirIdx = 0
    /\ dirResults = <<>>
    /\ dirErr = FALSE
    /\ puJobQueue = <<>>
    /\ puJobQueueClosed = FALSE
    /\ resultQueue = <<>>
    /\ resultQueueClosed = FALSE
    /\ poolCancelled = FALSE
    /\ stopped = FALSE
    /\ pw = [w \in 1..MaxPoolWorkers |-> idlePoolWorker]
    /\ collectedResults = <<>>
    /\ stats = [uploaded |-> 0, failed |-> 0, totalBytes |-> 0]
    /\ TasksIdle
    /\ SideIdle

NextDir == UploadDirectoryWithRetry \/ CancelDir

SpecDir == InitDir /\ [][NextDir]_vars

(***************************************************************************)
(* TaskRunner.RunAllTasks and TaskRunner.runTask.                          *)
(***************************************************************************)
MaxTasks == 2
TaskSources == {"missing", "file", "dir"}
\* the directories of the tasks hold at most two files, which
\* UploadDirectoryWithRetry uploads one at a time
TaskDirSizes == {0, 1, 2}

\* what the scan of a task's source finds
TaskFiles(source) ==
    IF source = "dir" THEN UNION {DirectoryFiles(n) : n \in TaskDirSizes}
    ELSE DirectoryFiles(1)

AnySuccessfulFile(r) == r.Success
\* if ur.Success { if ur.SkippedReason != "" {...} else { SuccessFiles++;
\* TotalBytes += ur.Size } }: the else branch
UploadedFile(r) == r.Success /\ r.SkippedReason = ""

\* runTask: the TaskResult with the per-file results counted
TaskResult(name, results, err) ==
    LET Count(P(_)) == Cardinality({i \in DOMAIN results : P(results[i])})
        Skipped(r) == r.Success /\ r.SkippedReason # ""
        Failed(r) == ~r.Success
        RECURSIVE Bytes(_)
        Bytes(rs) == IF rs = <<>> THEN 0
                     ELSE (IF UploadedFile(Head(rs)) THEN Head(rs).Size ELSE 0) + Bytes(Tail(rs))
    IN [TaskName |-> name, Error |-> err, UploadResults |-> results,
        TotalFiles |-> Len(results), SuccessFiles |-> Count(UploadedFile),
        SkippedFiles |-> Count(Skipped), FailedFiles |-> Count(Failed),
        TotalBytes |-> Bytes(results)]

AppendOnly(result) == [report EXCEPT !.TaskResults = Append(@, result)]

\* report.TaskResults = append(report.TaskResults, result), and the count of
\* the task: if result.Error != nil { FailedTasks++ } else { SuccessTasks++ }
Record(result) ==
    [report EXCEPT !.TaskResults = Append(@, result),
                   !.FailedTasks = IF result.Error THEN @ + 1 ELSE @,
                   !.SuccessTasks = IF result.Error THEN @ ELSE @ + 1]

StopAfter(i) == Len(tasks)
\* for _, task := range tr.config.UploadTasks
NextTask(i) == i + 1

\* the head of the loop over the tasks: the end of the loop, a disabled task,
\* and runTask up to its call of the uploader
RunTaskStart ==
    /\ trPc = "loop"
    /\ IF trIdx >= Len(tasks)
       THEN /\ report' = [report EXCEPT !.TotalTasks = Len(tasks)]
            /\ trPc' = "returned"
            /\ UNCHANGED <<trIdx, files, rt, attempts, dirVars, poolVars>>
       ELSE LET task == tasks[trIdx + 1] IN
            IF ~task.Enabled
            THEN /\ report' = [report EXCEPT !.SkippedTasks = @ + 1]
                 /\ trIdx' = NextTask(trIdx)
                 /\ UNCHANGED <<trPc, files, rt, attempts, dirVars, poolVars>>
            ELSE IF task.Source = "missing"
            THEN /\ report' = Record(TaskResult(trIdx + 1, <<>>, TRUE))
                 /\ trIdx' = NextTask(trIdx)
                 /\ UNCHANGED <<trPc, files, rt, attempts, dirVars, poolVars>>
            ELSE /\ files' \in TaskFiles(task.Source)
                 /\ attempts' = [f \in DOMAIN files' |-> <<>>]
                 /\ trPc' = task.Source
                 /\ rt' = [rt EXCEPT ![0] = IF task.Source = "file"
                                            THEN [idleRetry EXCEPT !.pc = "loop", !.file = 1]
                                            ELSE idleRetry]
                 /\ dirPc' = IF task.Source = "dir" THEN "start" ELSE "idle"
                 /\ dirIdx' = 0
                 /\ dirResults' = <<>>
                 /\ dirErr' = FALSE
                 /\ puJobQueue' = <<>>
                 /\ puJobQueueClosed' = FALSE
                 /\ resultQueue' = <<>>
                 /\ resultQueueClosed' = FALSE
                 /\ poolCancelled' = FALSE
                 /\ stopped' = FALSE
                 /\ pw' = [w \in 1..MaxPoolWorkers |-> idlePoolWorker]
                 /\ collectedResults' = <<>>
                 /\ stats' = [uploaded |-> 0, failed |-> 0, totalBytes |-> 0]
                 /\ UNCHANGED <<trIdx, report>>
    /\ UNCHANGED <<envVars, mpVars, uploadConfig, tasks, sideVars>>

\* runTask, single file: UploadFileWithRetry has returned; result.Error = err
RunTaskFile ==
    /\ trPc = "file"
    /\ rt[0].pc = "returned"
    /\ report' = Record(TaskResult(trIdx + 1, <<rt[0].result>>, rt[0].err # ""))
    /\ rt' = [rt EXCEPT ![0] = idleRetry]
    /\ trIdx' = NextTask(trIdx)
    /\ trPc' = "loop"
    /\ UNCHANGED <<envVars, mpVars, uploadConfig, files, attempts, dirVars, poolVars, tasks, sideVars>>

\* runTask, directory: UploadDirectoryWithRetry has returned; result.Error = err
RunTaskDirectory ==
    /\ trPc = "dir"
    /\ dirPc = "returned"
    /\ report' = Record(TaskResult(trIdx + 1, dirResults, dirErr))
    /\ dirPc' = "idle"
    /\ trIdx' = NextTask(trIdx)
    /\ trPc' = "loop"
    /\ UNCHANGED <<envVars, mpVars, upVars, dirIdx, dirResults, dirErr, poolVars, tasks, sideVars>>

\* the caller cancels the context it passed to RunAllTasks
CancelTasks ==
    /\ ~ctxCancelled
    /\ trPc # "returned"
    /\ ctxCancelled' = TRUE
    /\ UNCHANGED <<calls, mpVars, upVars, dirVars, poolVars, taskVars, sideVars>>

RunAllTasks ==
    \/ RunTaskStart
    \/ RunTaskFile
    \/ RunTaskDirectory
    \/ DirStart
    \/ SequentialStep
    \/ UploadFileWithRetry(0)

InitTasks ==
    /\ ctxCancelled = FALSE
    /\ calls = <<>>
    /\ MPIdle
    /\ DirIdle
    /\ uploadConfig \in [DryRun : BOOLEAN, MaxRetries : {1},
                         ParallelUploads : {1, 2}, MultipartThreshold : {MultipartThreshold}]
    /\ files = <<>>
    /\ rt = [t \in Threads |-> idleRetry]
    /\ attempts = <<>>
    /\ \E n \in 0..MaxTasks :
         tasks \in {ts \in [1..n -> [Enabled : BOOLEAN, Source : TaskSources]] :
                      \A i \in 1..n : ~ts[i].Enabled => ts[i].Source = "file"}
    /\ trPc = "loop"
    /\ trIdx = 0
    /\ report = emptyReport
    /\ SideIdle

NextTasks == RunAllTasks \/ CancelTasks

SpecTasks == InitTasks /\ [][NextTasks]_vars

(***************************************************************************)
(* ParallelUploader.Stop called by several goroutines, each several times, *)
(* on a started pool whose client has submitted its jobs.                  *)
(***************************************************************************)
MaxStopCalls == 2
PoolJobCounts == {0, 1, 2}

SwapsRegardless(old) == TRUE

\* pu.stopped.CompareAndSwap(old, new): whether the swap took place
CompareAndSwap(old) == stopped = old

\* a panic ends the calling goroutine and the process with it: no further
\* step of Stop is taken once poolPanic is set
PoolFrame == UNCHANGED <<envVars, mpVars, upVars, dirVars, taskVars, processedBytes, args, ret, trackerVars>>

\* if !pu.stopped.CompareAndSwap(false, true) { return }
StopSwap(c) ==
    /\ poolPanic = ""
    /\ stopPc[c].pc = "idle"
    /\ stopPc[c].calls < MaxStopCalls
    /\ IF CompareAndSwap(FALSE)
       THEN /\ stopped' = TRUE
            /\ stopPc' = [stopPc EXCEPT ![c].pc = "close"]
       ELSE /\ stopped' = stopped
            /\ stopPc' = [stopPc EXCEPT ![c].calls = @ + 1]
    /\ UNCHANGED <<puJobQueue, puJobQueueClosed, resultQueue, resultQueueClosed,
                   poolCancelled, pw, collectedResults, stats, poolPanic>>
    /\ PoolFrame

\* close(pu.jobQueue)
StopCloseJobs(c) ==
    /\ poolPanic = ""
    /\ stopPc[c].pc = "close"
    /\ IF puJobQueueClosed
       THEN /\ poolPanic' = "close of closed channel"
            /\ UNCHANGED <<puJobQueueClosed, stopPc>>
       ELSE /\ puJobQueueClosed' = TRUE
            /\ stopPc' = [stopPc EXCEPT ![c].pc = "wait"]
            /\ poolPanic' = poolPanic
    /\ UNCHANGED <<puJobQueue, resultQueue, resultQueueClosed, poolCancelled, stopped, pw,
                   collectedResults, stats>>
    /\ PoolFrame

\* pu.wg.Wait(); close(pu.resultQueue); pu.cancel()
StopWait(c) ==
    /\ poolPanic = ""
    /\ stopPc[c].pc = "wait"
    /\ PoolWorkersExited
    /\ IF resultQueueClosed
       THEN /\ poolPanic' = "close of closed channel"
            /\ UNCHANGED <<resultQueueClosed, poolCancelled, stopPc>>
       ELSE /\ resultQueueClosed' = TRUE
            /\ poolCancelled' = TRUE
            /\ stopPc' = [stopPc EXCEPT ![c] = [pc |-> "idle", calls |-> @.calls + 1]]
            /\ poolPanic' = poolPanic
    /\ UNCHANGED <<puJobQueue, puJobQueueClosed, resultQueue, stopped, pw, collectedResults, stats>>
    /\ PoolFrame

Stop(c) ==
    \/ StopSwap(c)
    \/ StopCloseJobs(c)
    \/ StopWait(c)

InitPool ==
    /\ ctxCancelled = FALSE
    /\ calls = <<>>
    /\ MPIdle
    /\ TasksIdle
    /\ ProgressIdle
    /\ ScanIdle
    /\ StopIdle
    /\ uploadConfig \in [DryRun : {FALSE}, MaxRetries : {1},
                         ParallelUploads : 1..MaxPoolWorkers, MultipartThreshold : {MultipartThreshold}]
    /\ \E n \in PoolJobCounts : files \in DirectoryFiles(n)
    /\ rt = [t \in Threads |-> idleRetry]
    /\ attempts = [f \in DOMAIN files |-> <<>>]
    /\ dirPc = "submitted"
    /\ dirIdx = Len(files)
    /\ dirResults = <<>>
    /\ dirErr = FALSE
    /\ puJobQueue = [i \in 1..Len(files) |-> i]
    /\ puJobQueueClosed = FALSE
    /\ resultQueue = <<>>
    /\ resultQueueClosed = FALSE
    /\ poolCancelled = FALSE
    /\ stopped = FALSE
    /\ pw = [w \in 1..MaxPoolWorkers |->
               IF w \in PoolWorkers THEN [pc |-> "recv", job |-> 0] ELSE idlePoolWorker]
    /\ collectedResults = <<>>
    /\ stats = [uploaded |-> 0, failed |-> 0, totalBytes |-> 0]

NextPool ==
    \/ \E c \in StopCallers : Stop(c)
    \/ \E w \in PoolWorkers : poolWorker(w)
    \/ CollectResult

SpecPool == InitPool /\ [][NextPool]_vars

(***************************************************************************)
(* ParallelUploader.SubmitJob called by a client once Stop has been called.*)
(***************************************************************************)
StoppedError == "parallel uploader is stopped: context cancelled"
Submitted(err, enqueued) == [err |-> err, enqueued |-> enqueued]

\* select { case pu.jobQueue <- job: return nil
\*          case <-pu.ctx.Done(): return fmt.Errorf(...) }
\* called once pu.stopped is set.  The send proceeds when the queue has room,
\* and panics when the channel is closed; the select takes any case that can
\* proceed, and waits when none can.  The job is the directory's first file.
SubmitJobAfterStop ==
    /\ poolPanic = ""
    /\ stopped
    /\ ret = <<>>
    /\ \/ /\ puJobQueueClosed
          /\ poolPanic' = "send on closed channel"
          /\ UNCHANGED <<puJobQueue, ret>>
       \/ /\ ~puJobQueueClosed
          /\ Len(puJobQueue) < QueueCap
          /\ files # <<>>
          /\ puJobQueue' = Append(puJobQueue, 1)
          /\ ret' = <<Submitted("", TRUE)>>
          /\ poolPanic' = poolPanic
       \/ /\ CtxDone("pool")
          /\ ret' = <<Submitted(StoppedError, FALSE)>>
          /\ UNCHANGED <<puJobQueue, poolPanic>>
    /\ UNCHANGED <<puJobQueueClosed, resultQueue, resultQueueClosed, poolCancelled, stopped,
                   pw, collectedResults, stats, stopPc>>
    /\ UNCHANGED <<envVars, mpVars, upVars, dirVars, taskVars, processedBytes, args, trackerVars>>

\* one goroutine calls Stop
NextSubmit ==
    \/ Stop(1)
    \/ \E w \in PoolWorkers : poolWorker(w)
    \/ CollectResult
    \/ SubmitJobAfterStop

SpecSubmit == InitPool /\ [][NextSubmit]_vars

(***************************************************************************)
(* The worker pool from NewParallelUploader and Start on, for any number   *)
(* of workers and of jobs: as UploadFilesParallel and                      *)
(* UploadDirectoryParallel drive it (jobs submitted, then Stop, with a     *)
(* goroutine collecting the results), and as a client drives it that       *)
(* submits its jobs and calls Stop without reading the results.            *)
(***************************************************************************)
InitParallel ==
    /\ ctxCancelled = FALSE
    /\ calls = <<>>
    /\ MPIdle
    /\ TasksIdle
    /\ SideIdle
    /\ uploadConfig \in [DryRun : {FALSE}, MaxRetries : {1},
                         ParallelUploads : 1..MaxPoolWorkers, MultipartThreshold : {MultipartThreshold}]
    /\ \E n \in 0..MaxFiles : files \in DirectoryFiles(n)
    /\ rt = [t \in Threads |-> idleRetry]
    /\ attempts = [f \in DOMAIN files |-> <<>>]
    /\ dirPc = "submit"
    /\ dirIdx = 0
    /\ dirResults = <<>>
    /\ dirErr = FALSE
    /\ puJobQueue = <<>>
    /\ puJobQueueClosed = FALSE
    /\ resultQueue = <<>>
    /\ resultQueueClosed = FALSE
    /\ poolCancelled = FALSE
    /\ stopped = FALSE
    /\ pw = [w \in 1..MaxPoolWorkers |->
               IF w \in PoolWorkers THEN [pc |-> "recv", job |-> 0] ELSE idlePoolWorker]
    /\ collectedResults = <<>>
    /\ stats = [uploaded |-> 0, failed |-> 0, totalBytes |-> 0]

\* the goroutine that submits the jobs, calls Stop and receives the results
ParallelCaller ==
    \/ SubmitJob
    \/ StopClose
    \/ StopFinish
    \/ ReceiveResults

\* the same goroutine of a client that does not read the results
UnreadCaller ==
    \/ SubmitJob
    \/ StopClose
    \/ StopFinish

NextParallel ==
    \/ ParallelCaller
    \/ CollectResult
    \/ \E w \in PoolWorkers : poolWorker(w)

NextUnread ==
    \/ UnreadCaller
    \/ \E w \in PoolWorkers : poolWorker(w)

\* every goroutine that can take a step eventually takes one
SpecParallelFair ==
    /\ InitParallel
    /\ [][NextParallel]_vars
    /\ WF_vars(ParallelCaller)
    /\ WF_vars(CollectResult)
    /\ \A w \in 1..MaxPoolWorkers : WF_vars(poolWorker(w))

SpecUnreadFair ==
    /\ InitParallel
    /\ [][NextUnread]_vars
    /\ WF_vars(UnreadCaller)
    /\ \A w \in 1..MaxPoolWorkers : WF_vars(poolWorker(w))

(***************************************************************************)
(* The file scanner: FileScanner.ShouldExclude.  A string is a sequence of *)
(* one-character strings.                                                  *)
(***************************************************************************)
MaxPathLen == 3
MaxPatternLen == 2
PathChars == {"a", "/"}
PatternChars == {"a", "b", "*", "?"}
PatternCounts == {0, 1, 2}
Separator == "/"

StringsUpTo(chars, n) == UNION {[1..k -> chars] : k \in 0..n}
Paths == StringsUpTo(PathChars, MaxPathLen) \ {<<>>}
Patterns == StringsUpTo(PatternChars, MaxPatternLen)
PatternLists == UNION {[1..k -> Patterns] : k \in PatternCounts}

\* strings.Contains(s, substr)
Contains(s, substr) ==
    \E i \in 1..(Len(s) - Len(substr) + 1) : SubSeq(s, i, i + Len(substr) - 1) = substr

RECURSIVE StripTrailingSeparators(_)
StripTrailingSeparators(path) ==
    IF Len(path) > 0 /\ path[Len(path)] = Separator
    THEN StripTrailingSeparators(SubSeq(path, 1, Len(path) - 1))
    ELSE path

RECURSIVE LastSeparator(_, _)
LastSeparator(path, i) ==
    IF i >= 1 /\ path[i] # Separator THEN LastSeparator(path, i - 1) ELSE i

WholePath(path) == path

\* filepath.Base(path)
Base(path) ==
    IF path = <<>> THEN <<".">>
    ELSE LET stripped == StripTrailingSeparators(path)
             i == LastSeparator(stripped, Len(stripped))
             last == SubSeq(stripped, i + 1, Len(stripped))
         IN IF last = <<>> THEN <<Separator>> ELSE last

RECURSIVE SkipStars(_)
SkipStars(pattern) ==
    IF pattern # <<>> /\ Head(pattern) = "*" THEN SkipStars(Tail(pattern)) ELSE pattern

RECURSIVE ChunkLen(_)
ChunkLen(pattern) ==
    IF pattern = <<>> \/ Head(pattern) = "*" THEN 0 ELSE 1 + ChunkLen(Tail(pattern))

\* scanChunk: the leading stars, the chunk up to the next star, and the rest
ScanChunk(pattern) ==
    LET afterStars == SkipStars(pattern)
        n == ChunkLen(afterStars)
    IN [star |-> afterStars # pattern,
        chunk |-> SubSeq(afterStars, 1, n),
        rest |-> SubSeq(afterStars, n + 1, Len(afterStars))]

\* matchChunk: the chunk has to match a prefix of s; the rest of s is returned
RECURSIVE MatchChunk(_, _)
MatchChunk(chunk, s) ==
    IF chunk = <<>> THEN [ok |-> TRUE, rest |-> s]
    ELSE IF s = <<>> THEN [ok |-> FALSE, rest |-> <<>>]
    ELSE IF Head(chunk) = "?"
    THEN IF Head(s) = Separator THEN [ok |-> FALSE, rest |-> <<>>]
         ELSE MatchChunk(Tail(chunk), Tail(s))
    ELSE IF Head(chunk) # Head(s) THEN [ok |-> FALSE, rest |-> <<>>]
    ELSE MatchChunk(Tail(chunk), Tail(s))

\* filepath.Match(pattern, name), for patterns without character classes
\* and escapes
RECURSIVE Match(_, _)
Match(pattern, name) ==
    IF pattern = <<>> THEN name = <<>>
    ELSE LET sc == ScanChunk(pattern)
             m == MatchChunk(sc.chunk, name)
             After(i) == MatchChunk(sc.chunk, SubSeq(name, i + 2, Len(name)))
             \* for i := 0; i < len(name) && name[i] != Separator; i++
             tried == {i \in 0..(Len(name) - 1) : \A j \in 1..(i + 1) : name[j] # Separator}
             found == {i \in tried : After(i).ok /\ ~(sc.rest = <<>> /\ After(i).rest # <<>>)}
         IN IF sc.star /\ sc.chunk = <<>> THEN ~Contains(name, <<Separator>>)
            ELSE IF m.ok /\ (m.rest = <<>> \/ sc.rest # <<>>) THEN Match(sc.rest, m.rest)
            ELSE IF sc.star /\ found # {}
            THEN Match(sc.rest, After(CHOOSE i \in found : \A k \in found : i <= k).rest)
            ELSE FALSE

\* FileScanner.ShouldExclude(filePath) with s.excludePatterns = patterns
RECURSIVE ShouldExclude(_, _)
ShouldExclude(filePath, patterns) ==
    IF patterns = <<>> THEN FALSE
    ELSE IF Match(Head(patterns), Base(filePath)) THEN TRUE
    ELSE IF Contains(filePath, Head(patterns)) THEN TRUE
    ELSE ShouldExclude(filePath, Tail(patterns))

InitScan ==
    /\ ctxCancelled = FALSE
    /\ calls = <<>>
    /\ MPIdle
    /\ UploaderIdle
    /\ ProgressIdle
    /\ StopIdle
    /\ args \in [filePath : Paths, patterns : PatternLists]
    /\ ret = <<>>

\* a caller applies ShouldExclude to a path
CallShouldExclude ==
    /\ ret = <<>>
    /\ ret' = <<ShouldExclude(args.filePath, args.patterns)>>
    /\ UNCHANGED <<envVars, mpVars, upVars, dirVars, poolVars, taskVars,
                   processedBytes, stopPc, poolPanic, args, trackerVars>>

NextScan == CallShouldExclude

SpecScan == InitScan /\ [][NextScan]_vars

(***************************************************************************)
(* FileScanner.ScanDirectory on a directory tree.  An entry of the tree    *)
(* has the names from the scanned directory down to it, its kind, and      *)
(* whether it can be read (os.ReadDir of a directory, DirEntry.Info of a   *)
(* file).                                                                  *)
(***************************************************************************)
MaxEntries == 3
\* the names an entry can have, in the lexical order of the walk
EntryNames == <<"a", "c">>
\* absDir, the absolute path of the scanned directory
absDir == <<Separator, "a", "b">>
ScanPatternLists ==
    {<<>>, <<<<"c">>>>, <<<<"a", "?">>>>, <<<<"a", "*">>>>, <<<<"?">>>>,
     <<<<"c">>, <<"a", "?">>>>}

Entry(names, kind, ok) == [names |-> names, kind |-> kind, ok |-> ok]
\* the places where a tree can get one more entry
FreePlaces(tree) ==
    {Append(dir, EntryNames[i]) :
        dir \in {<<>>} \cup {e.names : e \in {x \in tree : x.kind = "dir"}},
        i \in DOMAIN EntryNames}
      \ {e.names : e \in tree}
RECURSIVE TreesUpTo(_)
TreesUpTo(n) ==
    IF n = 0 THEN {{}}
    ELSE LET smaller == TreesUpTo(n - 1) IN
         smaller \cup UNION {{tree \cup {Entry(names, kind, ok)} :
                                names \in FreePlaces(tree), kind \in {"file", "dir"},
                                ok \in BOOLEAN} : tree \in smaller}

\* the path of an entry: filepath.Join(absDir, names...)
RECURSIVE PathOf(_)
PathOf(names) ==
    IF names = <<>> THEN absDir
    ELSE PathOf(SubSeq(names, 1, Len(names) - 1)) \o <<Separator, names[Len(names)]>>

\* filepath.Rel(absDir, path) of an entry
RECURSIVE RelativePathOf(_)
RelativePathOf(names) ==
    IF Len(names) = 1 THEN names
    ELSE RelativePathOf(SubSeq(names, 1, Len(names) - 1)) \o <<Separator, names[Len(names)]>>

FileInfo(names) == [Path |-> PathOf(names), RelativePath |-> RelativePathOf(names)]

NoDirectoryIsTheRoot(path) == FALSE
\* path != absDir, negated
IsScanRoot(path) == path = absDir

\* filepath.WalkDir from the directory at names, with the callback of
\* ScanDirectory: the files appended to fileInfos, in order
RECURSIVE WalkDir(_, _, _)
WalkDir(tree, patterns, names) ==
    LET EntriesAt(ns) == {e \in tree : e.names = ns}
        Visit(ns) ==
            IF EntriesAt(ns) = {} THEN <<>>
            ELSE LET e == CHOOSE x \in EntriesAt(ns) : TRUE IN
                 IF e.kind = "dir"
                 THEN IF ShouldExclude(PathOf(ns), patterns) /\ ~IsScanRoot(PathOf(ns))
                      THEN <<>>
                      ELSE IF ~e.ok THEN <<>>
                      ELSE WalkDir(tree, patterns, ns)
                 ELSE IF ShouldExclude(PathOf(ns), patterns) THEN <<>>
                 ELSE IF ~e.ok THEN <<>>
                 ELSE <<FileInfo(ns)>>
        RECURSIVE Children(_)
        Children(i) ==
            IF i > Len(EntryNames) THEN <<>>
            ELSE Visit(Append(names, EntryNames[i])) \o Children(i + 1)
    IN Children(1)

\* the non-recursive scan: os.ReadDir(absDir) and the loop over its entries
RECURSIVE ReadDirFiles(_, _, _)
ReadDirFiles(tree, patterns, i) ==
    IF i > Len(EntryNames) THEN <<>>
    ELSE LET here == {e \in tree : e.names = <<EntryNames[i]>>}
             e == CHOOSE x \in here : TRUE
         IN (IF here = {} THEN <<>>
             ELSE IF e.kind = "dir" THEN <<>>
             ELSE IF ShouldExclude(PathOf(e.names), patterns) THEN <<>>
             ELSE IF ~e.ok THEN <<>>
             ELSE <<FileInfo(e.names)>>) \o ReadDirFiles(tree, patterns, i + 1)

\* ScanDirectory(directory, recursive) on an existing, readable directory:
\* the root is visited first, as a directory that is never skipped by the
\* callback unless it is excluded and is not absDir
ScanDirectory(tree, patterns, recursive) ==
    IF recursive
    THEN IF ShouldExclude(absDir, patterns) /\ ~IsScanRoot(absDir)
         THEN <<>>
         ELSE WalkDir(tree, patterns, <<>>)
    ELSE ReadDirFiles(tree, patterns, 1)

InitWalk ==
    /\ ctxCancelled = FALSE
    /\ calls = <<>>
    /\ MPIdle
    /\ UploaderIdle
    /\ ProgressIdle
    /\ StopIdle
    /\ args \in [tree : TreesUpTo(MaxEntries), patterns : ScanPatternLists, recursive : BOOLEAN]
    /\ ret = <<>>

\* a caller applies ScanDirectory
CallScanDirectory ==
    /\ ret = <<>>
    /\ ret' = <<ScanDirectory(args.tree, args.patterns, args.recursive)>>
    /\ UNCHANGED <<envVars, mpVars, upVars, dirVars, poolVars, taskVars,
                   processedBytes, stopPc, poolPanic, args, trackerVars>>

NextWalk == CallScanDirectory

SpecWalk == InitWalk /\ [][NextWalk]_vars

(***************************************************************************)
(* The S3 key of a file of a directory: filepath.Join, filepath.Clean and  *)
(* filepath.ToSlash on paths that are sequences of characters.             *)
(***************************************************************************)
Dot == "."
\* the elements of a path between its separators
RECURSIVE Elements(_)
Elements(path) ==
    IF \A i \in DOMAIN path : path[i] # Separator THEN <<path>>
    ELSE LET i == CHOOSE k \in DOMAIN path :
                    path[k] = Separator /\ \A j \in 1..(k - 1) : path[j] # Separator
         IN <<SubSeq(path, 1, i - 1)>> \o Elements(SubSeq(path, i + 1, Len(path)))

RECURSIVE JoinWith(_, _)
JoinWith(elems, sep) ==
    IF elems = <<>> THEN <<>>
    ELSE IF Len(elems) = 1 THEN elems[1]
    ELSE elems[1] \o <<sep>> \o JoinWith(Tail(elems), sep)

\* filepath.Clean: separators are merged, "." elements dropped, an inner
\* ".." removes the element before it, ".." at the root is dropped, and the
\* empty path becomes "."
RECURSIVE CleanElements(_, _, _)
CleanElements(elems, out, rooted) ==
    IF elems = <<>> THEN out
    ELSE LET e == Head(elems) IN
         IF e = <<>> \/ e = <<Dot>> THEN CleanElements(Tail(elems), out, rooted)
         ELSE IF e = <<Dot, Dot>>
         THEN IF out # <<>> /\ out[Len(out)] # <<Dot, Dot>>
              THEN CleanElements(Tail(elems), SubSeq(out, 1, Len(out) - 1), rooted)
              ELSE IF rooted THEN CleanElements(Tail(elems), out, rooted)
              ELSE CleanElements(Tail(elems), Append(out, e), rooted)
         ELSE CleanElements(Tail(elems), Append(out, e), rooted)

Clean(path) ==
    LET rooted == path # <<>> /\ path[1] = Separator
        kept == JoinWith(CleanElements(Elements(path), <<>>, rooted), Separator)
    IN IF rooted THEN <<Separator>> \o kept
       ELSE IF kept = <<>> THEN <<Dot>>
       ELSE kept

\* filepath.Join: the empty elements are ignored and the result is cleaned;
\* with no non-empty element the result is the empty string
Join(elems) ==
    LET nonEmpty == SelectSeq(elems, LAMBDA e : e # <<>>) IN
    IF nonEmpty = <<>> THEN <<>> ELSE Clean(JoinWith(nonEmpty, Separator))

\* filepath.ToSlash: every Separator becomes a slash
ToSlash(path) == [i \in DOMAIN path |-> IF path[i] = Separator THEN "/" ELSE path[i]]

\* generateS3Key, which UploadDirectoryParallel calls for every job
generateS3Key(prefix, relativePath) == ToSlash(Join(<<prefix, relativePath>>))

\* key := filepath.Join(keyPrefix, fileInfo.RelativePath); key =
\* filepath.ToSlash(key), in uploadDirectorySequentialWithRetry
SequentialKey(keyPrefix, relativePath) == ToSlash(Join(<<keyPrefix, relativePath>>))

(***************************************************************************)
(* The ProgressTracker, called by several goroutines.  Worker ids are the  *)
(* ids of the calling goroutines; a call may report for another worker.    *)
(***************************************************************************)
WorkerNames == {"", "a", "b"}
ByteCounts == {1, 2}

\* a goroutine may start a call
MayCall(g) ==
    /\ ptPc[g].pc = "idle"
    /\ ptLog.calls < MaxTrackerCalls

KeepsEveryStatus(m, id, name) ==
    [w \in DOMAIN m \cup {id} |-> IF w = id THEN name ELSE m[w]]

\* if fileName == "" { delete(pt.activeWorkers, workerID) } else { pt.activeWorkers[workerID] = fileName }
UpdatedWorkers(m, id, name) ==
    IF name = ""
    THEN [w \in DOMAIN m \ {id} |-> m[w]]
    ELSE [w \in DOMAIN m \cup {id} |-> IF w = id THEN name ELSE m[w]]

\* IncrementProcessed: pt.processedFiles.Add(1)
TrackerIncrementProcessed(g) ==
    /\ MayCall(g)
    /\ \E b \in ByteCounts :
         /\ ptPc' = [ptPc EXCEPT ![g] = [idleTrackerCaller EXCEPT !.pc = "addBytes",
                                          !.op = "IncrementProcessed", !.bytes = b]]
         /\ ptLog' = [ptLog EXCEPT !.calls = @ + 1, !.processed = @ + 1, !.bytes = @ + b]
    /\ pt' = [pt EXCEPT !.processedFiles = @ + 1]
    /\ UNCHANGED <<envVars, mpVars, upVars, dirVars, poolVars, taskVars,
                   processedBytes, stopPc, poolPanic, args, ret>>

\* IncrementProcessed: pt.processedBytes.Add(bytes), and the return
TrackerAddBytes(g) ==
    /\ ptPc[g].pc = "addBytes"
    /\ IncrementProcessed(ptPc[g].bytes)
    /\ ptPc' = [ptPc EXCEPT ![g].pc = "idle"]
    /\ UNCHANGED <<envVars, mpVars, upVars, dirVars, poolVars, taskVars,
                   stopPc, poolPanic, args, ret, pt, ptLog>>

\* pt.failedFiles.Add(1)
IncrementFailed(g) ==
    /\ MayCall(g)
    /\ pt' = [pt EXCEPT !.failedFiles = @ + 1]
    /\ ptPc' = [ptPc EXCEPT ![g] = [idleTrackerCaller EXCEPT !.op = "IncrementFailed"]]
    /\ ptLog' = [ptLog EXCEPT !.calls = @ + 1, !.failed = @ + 1]
    /\ UNCHANGED <<envVars, mpVars, upVars, dirVars, poolVars, taskVars,
                   processedBytes, stopPc, poolPanic, args, ret>>

\* pt.skippedFiles.Add(1)
IncrementSkipped(g) ==
    /\ MayCall(g)
    /\ pt' = [pt EXCEPT !.skippedFiles = @ + 1]
    /\ ptPc' = [ptPc EXCEPT ![g] = [idleTrackerCaller EXCEPT !.op = "IncrementSkipped"]]
    /\ ptLog' = [ptLog EXCEPT !.calls = @ + 1, !.skipped = @ + 1]
    /\ UNCHANGED <<envVars, mpVars, upVars, dirVars, poolVars, taskVars,
                   processedBytes, stopPc, poolPanic, args, ret>>

\* UpdateWorkerStatus(workerID, fileName): pt.mu.Lock() succeeds
UpdateWorkerStatusLock(g) ==
    /\ MayCall(g)
    /\ pt.mu.writer = 0
    /\ pt.mu.readers = {}
    /\ \E id \in TrackerCallers : \E name \in WorkerNames :
         ptPc' = [ptPc EXCEPT ![g] = [idleTrackerCaller EXCEPT !.pc = "locked",
                                       !.op = "UpdateWorkerStatus", !.id = id, !.name = name]]
    /\ pt' = [pt EXCEPT !.mu.writer = g]
    /\ ptLog' = [ptLog EXCEPT !.calls = @ + 1]
    /\ UNCHANGED <<envVars, mpVars, upVars, dirVars, poolVars, taskVars,
                   processedBytes, stopPc, poolPanic, args, ret>>

\* UpdateWorkerStatus: the map is updated; the deferred pt.mu.Unlock()
UpdateWorkerStatusWrite(g) ==
    /\ ptPc[g].pc = "locked"
    /\ pt' = [pt EXCEPT !.activeWorkers = UpdatedWorkers(@, ptPc[g].id, ptPc[g].name),
                        !.mu.writer = 0]
    /\ ptPc' = [ptPc EXCEPT ![g].pc = "idle"]
    /\ ptLog' = [ptLog EXCEPT !.last[ptPc[g].id] = ptPc[g].name]
    /\ UNCHANGED <<envVars, mpVars, upVars, dirVars, poolVars, taskVars,
                   processedBytes, stopPc, poolPanic, args, ret>>

\* GetActiveWorkers: pt.mu.RLock() succeeds
GetActiveWorkersRLock(g) ==
    /\ MayCall(g)
    /\ pt.mu.writer = 0
    /\ pt' = [pt EXCEPT !.mu.readers = @ \cup {g}]
    /\ ptPc' = [ptPc EXCEPT ![g] = [idleTrackerCaller EXCEPT !.pc = "rlocked",
                                     !.op = "GetActiveWorkers"]]
    /\ ptLog' = [ptLog EXCEPT !.calls = @ + 1]
    /\ UNCHANGED <<envVars, mpVars, upVars, dirVars, poolVars, taskVars,
                   processedBytes, stopPc, poolPanic, args, ret>>

\* GetActiveWorkers: workers := make(map[int]string), the loop that copies
\* the entries, the deferred pt.mu.RUnlock() and the return of workers
GetActiveWorkersCopy(g) ==
    /\ ptPc[g].pc = "rlocked"
    /\ pt' = [pt EXCEPT !.mu.readers = @ \ {g}]
    /\ ptPc' = [ptPc EXCEPT ![g].pc = "idle",
                            ![g].ret = <<[object |-> "workers", entries |-> pt.activeWorkers]>>]
    /\ UNCHANGED <<envVars, mpVars, upVars, dirVars, poolVars, taskVars,
                   processedBytes, stopPc, poolPanic, args, ret, ptLog>>

InitTracker ==
    /\ ctxCancelled = FALSE
    /\ calls = <<>>
    /\ MPIdle
    /\ UploaderIdle
    /\ StopIdle
    /\ ScanIdle
    /\ processedBytes = 0
    /\ pt = NewProgressTracker(MaxTrackerCalls)
    /\ ptPc = [g \in TrackerCallers |-> idleTrackerCaller]
    /\ ptLog = emptyTrackerLog

NextTracker ==
    \E g \in TrackerCallers :
        \/ TrackerIncrementProcessed(g)
        \/ TrackerAddBytes(g)
        \/ IncrementFailed(g)
        \/ IncrementSkipped(g)
        \/ UpdateWorkerStatusLock(g)
        \/ UpdateWorkerStatusWrite(g)
        \/ GetActiveWorkersRLock(g)
        \/ GetActiveWorkersCopy(g)

SpecTracker == InitTracker /\ [][NextTracker]_vars

(***************************************************************************)
(* ProgressTracker.GetStats on a tracker at rest.  Durations are whole     *)
(* nanoseconds; Speed, a float64 that is not part of the ETA, is left out. *)
(***************************************************************************)
MaxTotalFiles == 2
MaxCounted == 2
ElapsedValues == {0, 1, 7, 10}

\* GetStats, with elapsed the value of time.Since(pt.startTime)
GetStats(t, bytes, elapsed) ==
    LET completed == t.processedFiles + t.failedFiles + t.skippedFiles
        avgTimePerFile == elapsed \div completed
        remainingFiles == t.totalFiles - completed
    IN [TotalFiles |-> t.totalFiles, ProcessedFiles |-> t.processedFiles,
        FailedFiles |-> t.failedFiles, SkippedFiles |-> t.skippedFiles,
        ProcessedBytes |-> bytes, Elapsed |-> elapsed,
        ETA |-> IF completed > 0 /\ t.totalFiles > 0
                THEN avgTimePerFile * remainingFiles
                ELSE -1]

\* a tracker made for 0..MaxTotalFiles files, after any calls of its
\* Increment methods have returned
InitStats ==
    /\ ctxCancelled = FALSE
    /\ calls = <<>>
    /\ MPIdle
    /\ UploaderIdle
    /\ StopIdle
    /\ \E total \in 0..MaxTotalFiles : \E p \in 0..MaxCounted : \E f \in 0..MaxCounted :
       \E k \in 0..MaxCounted : \E b \in ByteCounts :
         /\ pt = [NewProgressTracker(total) EXCEPT !.processedFiles = p, !.failedFiles = f,
                                                   !.skippedFiles = k]
         /\ processedBytes = p * b
         /\ ptLog = [emptyTrackerLog EXCEPT !.calls = p + f + k, !.processed = p,
                                            !.bytes = p * b, !.failed = f, !.skipped = k]
    /\ ptPc = [g \in TrackerCallers |-> idleTrackerCaller]
    /\ args \in [elapsed : ElapsedValues]
    /\ ret = <<>>

\* a caller applies GetStats
CallGetStats ==
    /\ ret = <<>>
    /\ ret' = <<GetStats(pt, processedBytes, args.elapsed)>>
    /\ UNCHANGED <<envVars, mpVars, upVars, dirVars, poolVars, taskVars,
                   processedBytes, stopPc, poolPanic, args, trackerVars>>

NextStats == CallGetStats

SpecStats == InitStats /\ [][NextStats]_vars

(***************************************************************************)
(* Properties of the multipart engine.                                     *)
(***************************************************************************)
CallsOf(op) == {i \in DOMAIN calls : calls[i].op = op /\ calls[i].id = uploadID}
CeilDiv(a, b) == IF a % b = 0 THEN a \div b ELSE (a \div b) + 1
SessionCreated == uploadID # 0
SessionDone == \E i \in CallsOf("complete") : calls[i].ok
SessionOpen == SessionCreated /\ ~SessionDone

\* C1: when UploadFileMultipart or UploadFileMultipartParallel has returned and
\* a session was created, exactly one of complete_multipart and
\* abort_multipart was invoked for its upload-id (never both, never neither).
C1_ExactlyOneCompleteOrAbort ==
    (MPReturned /\ SessionCreated) =>
        Cardinality(CallsOf("complete")) + Cardinality(CallsOf("abort")) = 1

\* C2: every complete_multipart that succeeds (the session reaches DONE)
\* submits the part numbers 1..N, N = ceil(size/chunk), in increasing order
\* without duplicates, in the sequential and in the parallel variant.
C2_CompletePartsAreOneToN ==
    \A i \in CallsOf("complete") :
        calls[i].ok =>
            calls[i].parts = [k \in 1..CeilDiv(mpIn.fileSize, Chunk) |-> k]

\* a parallel upload whose parts finished out of order has completed
C2_Witness ==
    /\ mpIn.variant = "par"
    /\ SessionDone
    /\ \E i, j \in CallsOf("upload_part") : i < j /\ calls[i].part > calls[j].part

AbortedOnLiveContext ==
    \E i \in CallsOf("abort") : calls[i].ctx # CallerCtx /\ ~calls[i].cancelled

\* C7: if the caller's context is cancelled while a session is open, then
\* abort_multipart is eventually invoked for that upload-id on a context that
\* is not cancelled and not derived from the caller's.
C7_CancelLeadsToAbort ==
    [](ctxCancelled /\ SessionOpen => <>AbortedOnLiveContext)

\* the context was cancelled after create_multipart succeeded and before any
\* complete_multipart, and the session has been aborted
C7_Witness ==
    /\ \E c \in DOMAIN calls :
         /\ calls[c].op = "cancel" /\ calls[c].id # 0
         /\ \A i \in 1..c : calls[i].op # "complete"
    /\ AbortedOnLiveContext

\* C15: in the sequential and in the parallel variant, for every requested
\* chunk size, no part other than the final one is smaller than 5 MiB.
C15_PartsAtLeastMinPartSize ==
    \A i \in CallsOf("upload_part") :
        LET n == calls[i].part IN
        n < CeilDiv(mpIn.fileSize, Chunk) =>
            PartSize(mpIn.fileSize, Chunk, (n - 1) * Chunk) >= minPartSize

PartFailures == CallsOf("seek") \cup CallsOf("read") \cup {i \in CallsOf("upload_part") : ~calls[i].ok}

\* C23: once an upload_part, or the seek or read before it, has failed in a
\* session, complete_multipart is never invoked for that upload-id, and
\* abort_multipart is invoked at most once for it, exactly once when the
\* upload has returned.
C23_PartFailureAbortsOnce ==
    PartFailures # {} =>
        /\ CallsOf("complete") = {}
        /\ Cardinality(CallsOf("abort")) <= 1
        /\ MPReturned => Cardinality(CallsOf("abort")) = 1

\* a parallel upload has returned after a worker could not read its part
\* while another worker's part was uploaded
C23_Witness ==
    /\ mpIn.variant = "par"
    /\ mpPc = "done"
    /\ CallsOf("read") # {}
    /\ \E i \in CallsOf("upload_part") : calls[i].ok
    /\ Cardinality(CallsOf("abort")) = 1

UploadedParts == {calls[j].part : j \in {k \in CallsOf("upload_part") : calls[k].ok}}

\* C24: in the parallel variant, when complete_multipart has been invoked
\* every part worker has exited, and the list it submitted holds each part
\* recorded by a successful upload_part of the session exactly once, with
\* its etag, in ascending order of part number.
C24_CompleteAfterWorkersWithAllParts ==
    mpIn.variant = "par" =>
        \A i \in CallsOf("complete") :
            /\ \A w \in Workers : wk[w].pc = "done"
            /\ Len(calls[i].parts) = Cardinality(UploadedParts)
            /\ {calls[i].parts[k] : k \in DOMAIN calls[i].parts} = UploadedParts
            /\ \A k \in 1..(Len(calls[i].parts) - 1) : calls[i].parts[k] < calls[i].parts[k + 1]
            /\ {parts[k] : k \in DOMAIN parts} =
                   {[PartNumber |-> n, ETag |-> <<uploadID, n>>] : n \in UploadedParts}

\* two workers have uploaded three parts, the third before the second, and
\* complete_multipart has been invoked
C24_Witness ==
    /\ mpIn.variant = "par"
    /\ mpIn.numWorkers = 2
    /\ CallsOf("complete") # {}
    /\ UploadedParts = {1, 2, 3}
    /\ \E i, j \in CallsOf("upload_part") : i < j /\ calls[i].part = 3 /\ calls[j].part = 2

\* C25: in the parallel variant, once abort_multipart has been issued (and
\* afterwards, when the file is closed and the function has returned) every
\* part worker has exited, and no upload_part of the session is issued after
\* the abort.
C25_AbortAfterWorkersExit ==
    mpIn.variant = "par" =>
        \A i \in CallsOf("abort") :
            /\ \A w \in Workers : wk[w].pc = "done"
            /\ \A j \in CallsOf("upload_part") : j < i

HoldsJob(w) == wk[w].pc \in {"check", "read", "upload", "inflight"}

\* C26: within a session no part number is submitted to upload_part twice,
\* failed or not; each part job is with at most one worker, so no two
\* workers work on the same part number, and a job a worker holds is
\* neither still in the queue nor already submitted.
C26_PartSubmittedAtMostOnce ==
    /\ \A i, j \in CallsOf("upload_part") : calls[i].part = calls[j].part => i = j
    /\ \A v, w \in Workers :
          (HoldsJob(v) /\ HoldsJob(w) /\ wk[v].job.PartNumber = wk[w].job.PartNumber) => v = w
    /\ \A w \in Workers :
          HoldsJob(w) =>
              /\ \A k \in DOMAIN jobQueue : jobQueue[k].PartNumber # wk[w].job.PartNumber
              /\ \A i \in CallsOf("upload_part") : calls[i].part # wk[w].job.PartNumber
    /\ \A k, l \in DOMAIN jobQueue : jobQueue[k].PartNumber = jobQueue[l].PartNumber => k = l

\* two workers have upload_part calls in flight at the same time, after an
\* earlier upload_part of the session
C26_Witness ==
    /\ wk[1].pc = "inflight"
    /\ wk[2].pc = "inflight"
    /\ CallsOf("upload_part") # {}

Min(a, b) == IF a < b THEN a ELSE b
PartStart(n) == (n - 1) * Chunk
PartLength(n) == Min(Chunk, mpIn.fileSize - PartStart(n))
PendingJobs == {jobQueue[k] : k \in DOMAIN jobQueue} \cup {wk[w].job : w \in {v \in Workers : HoldsJob(v)}}

\* C27: with file size S and chunk C as the variant uses it, the parts are
\* numbered 1..N, N = ceil(S/C); part n starts at (n-1)*C and has
\* min(C, S-(n-1)*C) bytes, so only part N may be shorter than C; the loop
\* has covered [0, min(S, k*C)) after k parts and ends with k = N at S.
C27_PartsTileTheFile ==
    (Chunk > 0 /\ mpPc \notin {"idle", "start"}) =>
        LET N == CeilDiv(mpIn.fileSize, Chunk) IN
        /\ \A j \in PendingJobs :
              /\ j.PartNumber \in 1..N
              /\ j.Offset = PartStart(j.PartNumber)
              /\ j.Size = PartLength(j.PartNumber)
              /\ j.Size > 0
              /\ j.Size < Chunk => j.PartNumber = N
        /\ \A i \in CallsOf("upload_part") : calls[i].part \in 1..N
        /\ mpIn.variant = "par" =>
              /\ offset = Min(mpIn.fileSize, partNumber * Chunk)
              /\ jobQueueClosed => partNumber = N /\ offset = mpIn.fileSize
        /\ mpIn.variant = "seq" =>
              /\ offset = Min(mpIn.fileSize, Len(parts) * Chunk)
              /\ partNumber <= N
              /\ CallsOf("complete") # {} => Len(parts) = N /\ offset = mpIn.fileSize

\* a worker holds the third and last part of a file of two chunks and one
\* byte
C27_Witness ==
    /\ mpIn.fileSize = 2 * Chunk + 1
    /\ \E w \in Workers :
          HoldsJob(w) /\ wk[w].job.PartNumber = 3 /\ wk[w].job.Size = 1 /\ wk[w].job.Offset = 2 * Chunk

SuccessfulCreates == {i \in DOMAIN calls : calls[i].op = "create" /\ calls[i].ok}
\* the part numbers uploaded with success under upload-id id before call k
UploadedUnder(id, k) ==
    {calls[u].part : u \in {v \in 1..(k - 1) :
        calls[v].op = "upload_part" /\ calls[v].ok /\ calls[v].id = id}}

\* C21: when an attempt of UploadFileWithRetry fails after its session was
\* created and another attempt follows, an abort of the failed session is
\* issued before the next create_multipart, which gets an upload-id of its
\* own; every complete_multipart submits exactly the parts uploaded with
\* success under its own upload-id, each once, and the manager holds no part
\* of another session; and once UploadFileWithRetry has returned after a
\* successful complete_multipart, its one UploadResult has Success = true and
\* no error.
C21_RetryStartsANewSession ==
    /\ \A i \in SuccessfulCreates : \A j \in SuccessfulCreates :
         i < j =>
           /\ calls[i].id # calls[j].id
           /\ \E k \in (i + 1)..(j - 1) : calls[k].op = "abort" /\ calls[k].id = calls[i].id
    /\ \A k \in DOMAIN calls :
         calls[k].op = "complete" =>
           /\ {calls[k].parts[n] : n \in DOMAIN calls[k].parts} = UploadedUnder(calls[k].id, k)
           /\ Len(calls[k].parts) = Cardinality(UploadedUnder(calls[k].id, k))
    /\ (\E i \in SuccessfulCreates : calls[i].id = uploadID) =>
         \A n \in DOMAIN parts : parts[n].ETag[1] = uploadID
    /\ (rt[0].pc = "returned" /\ \E k \in DOMAIN calls : calls[k].op = "complete" /\ calls[k].ok) =>
         rt[0].result = Result(1, TRUE, "", "", files[1].Size)

\* the first attempt created session 1, failed on a part and aborted; the
\* second attempt created session 2 and completed it with both parts
C21_Witness ==
    /\ rt[0].pc = "returned"
    /\ rt[0].result.Success
    /\ Len(attempts[1]) = 2
    /\ \E u \in DOMAIN calls : calls[u].op = "upload_part" /\ ~calls[u].ok /\ calls[u].id = 1
    /\ \E u \in DOMAIN calls : calls[u].op = "upload_part" /\ calls[u].ok /\ calls[u].id = 1
    /\ \E a \in DOMAIN calls : calls[a].op = "abort" /\ calls[a].id = 1
    /\ \E k \in DOMAIN calls :
         calls[k].op = "complete" /\ calls[k].ok /\ calls[k].id = 2 /\ calls[k].parts = <<1, 2>>

(***************************************************************************)
(* Properties of UploadFileWithRetry.                                      *)
(***************************************************************************)
RetryReturned == rt[0].pc = "returned"
AllFailed(log) == \A i \in DOMAIN log : ~log[i].ok

\* C4: UploadFileWithRetry invokes UploadFile at most max_retries + 1 times
\* for the file (at most once when max_retries <= 0, and exactly once then
\* unless the context was already cancelled), makes no attempt after a
\* successful one, and returns a failure only when all max_retries + 1
\* attempts have failed or the context was cancelled.
C4_AttemptsBounded ==
    LET log == attempts[1]
        n == Len(log)
        m == uploadConfig.MaxRetries
        limit == IF m <= 0 THEN 1 ELSE m + 1
    IN /\ n <= limit
       /\ \A i \in 1..(n - 1) : ~log[i].ok
       /\ RetryReturned =>
            /\ rt[0].result.Success => n >= 1 /\ log[n].ok
            /\ ~rt[0].result.Success =>
                 \/ rt[0].result.Error = "ctx"
                 \/ n = limit /\ AllFailed(log)
            /\ (m <= 0 /\ rt[0].result.Error # "ctx") => n = 1

\* with max_retries = 2, three failed attempts and then the failure
C4_Witness ==
    /\ RetryReturned
    /\ uploadConfig.MaxRetries = 2
    /\ Len(attempts[1]) = 3
    /\ ~rt[0].result.Success
    /\ rt[0].result.Error # "ctx"

ExpectedDelay(k) == Mul64(Int64(IF k >= 6 THEN MaxDelaySeconds ELSE Pow2(k - 1)), Second)

\* C8: the first attempt is made without delay, and the delay slept before
\* retry k >= 1 is exactly min(2^(k-1), 30) seconds, for every k up to
\* max_retries.
C8_BackoffSequence ==
    \A i \in DOMAIN attempts[1] :
        LET a == attempts[1][i] IN
        IF a.attempt = 0 THEN ~a.slept
        ELSE a.slept /\ a.delay = ExpectedDelay(a.attempt)

SmallFile ==
    ~uploadConfig.DryRun /\ files[1].statOk /\ files[1].Size < uploadConfig.MultipartThreshold
LargeFile ==
    ~uploadConfig.DryRun /\ files[1].statOk /\ files[1].Size >= uploadConfig.MultipartThreshold

C12_LargeFileUsesMultipart ==
    LargeFile =>
        \A i \in DOMAIN attempts[1] :
            /\ attempts[1][i].op # "put_object"
            /\ attempts[1][i].via = IF uploadConfig.ParallelUploads > 1
                                    THEN "UploadFileMultipartParallel"
                                    ELSE "UploadFileMultipart"

\* a file of exactly multipart_threshold bytes went through the parallel
\* engine, and another configuration through the sequential one
C12_Witness ==
    /\ LargeFile
    /\ files[1].Size = uploadConfig.MultipartThreshold
    /\ uploadConfig.ParallelUploads > 1
    /\ RetryReturned
    /\ rt[0].result.Success
    /\ attempts[1][Len(attempts[1])].via = "UploadFileMultipartParallel"

\* C13: when the source cannot be stat'ed, UploadFileWithRetry makes exactly
\* one attempt, sleeps no backoff delay and returns success=false, whatever
\* max_retries is.
C13_StatFailureIsPermanent ==
    ~files[1].statOk =>
        /\ Len(attempts[1]) <= 1
        /\ \A i \in DOMAIN attempts[1] : ~attempts[1][i].slept
        /\ RetryReturned => ~rt[0].result.Success

\* C14: UploadFileWithRetry makes no attempt once the context is cancelled,
\* also when it is cancelled during the backoff delay before the attempt.
C14_NoAttemptAfterCancel ==
    \A i \in DOMAIN attempts[1] : ~attempts[1][i].cancelled

\* C20: every result with success=false that UploadFile or
\* UploadFileWithRetry returns carries an error, and the error return value
\* is non-nil exactly when the result has success=false.
C20_FailureCarriesError ==
    /\ \A i \in DOMAIN attempts[1] :
         LET a == attempts[1][i] IN
         /\ ~a.ok => a.error # ""
         /\ (a.err # "") <=> ~a.ok
    /\ RetryReturned =>
         /\ ~rt[0].result.Success => rt[0].result.Error # ""
         /\ (rt[0].err # "") <=> ~rt[0].result.Success

\* UploadFile failed on a file that cannot be stat'ed and UploadFileWithRetry
\* has returned the failure
C20_Witness ==
    /\ RetryReturned
    /\ ~files[1].statOk
    /\ Len(attempts[1]) >= 1
    /\ ~rt[0].result.Success
    /\ rt[0].err # ""

(***************************************************************************)
(* Properties of the directory upload and of the worker pool.              *)
(***************************************************************************)
Emitted == collectedResults \o resultQueue
Sources(rs) == {rs[i].Source : i \in DOMAIN rs}
ResultsOf(rs) == {rs[i] : i \in DOMAIN rs}
Results ==
    ResultsOf(dirResults) \cup ResultsOf(Emitted)
        \cup {rt[t].result : t \in {u \in DOMAIN rt : rt[u].pc = "returned"}}
TransportOps ==
    UNION {{attempts[f][i].op : i \in DOMAIN attempts[f]} : f \in DOMAIN attempts} \ {"none"}

\* C3: the results the pool has emitted never name a job twice and only name
\* submitted jobs, and once Stop has closed the result stream there is exactly
\* one result for each of the N submitted jobs, in any order.
C3_EveryJobYieldsOneResult ==
    /\ Cardinality(Sources(Emitted)) = Len(Emitted)
    /\ Sources(Emitted) \subseteq 1..dirIdx
    /\ resultQueueClosed => Sources(Emitted) = 1..dirIdx

\* three jobs were submitted, Stop has closed the result stream, and the
\* results were emitted in another order than the jobs were submitted
C3_Witness ==
    /\ resultQueueClosed
    /\ dirIdx = 3
    /\ Len(Emitted) = 3
    /\ Emitted[1].Source # 1

\* C5 as stated: with dry_run=true no transport operation is invoked and every
\* UploadResult has success=true and a non-empty skipped_reason.
C5_EveryResultSkipped ==
    uploadConfig.DryRun =>
        /\ TransportOps = {}
        /\ calls = <<>>
        /\ \A r \in Results : r.Success /\ r.SkippedReason # ""

\* C5, amended: with dry_run=true no transport operation is ever invoked on the
\* sequential or the pool path, and a result has success=true and a non-empty
\* skipped_reason exactly when its file could be stat'ed and the retry loop
\* did not find its context cancelled; the other results have success=false.
C5_DryRunNoTransport ==
    uploadConfig.DryRun =>
        /\ TransportOps = {}
        /\ calls = <<>>
        /\ \A r \in Results :
             IF files[r.Source].statOk /\ r.Error # "ctx"
             THEN r.Success /\ r.SkippedReason # ""
             ELSE ~r.Success /\ r.SkippedReason = ""

\* a dry run of three files through the worker pool has returned its results
C5_Witness ==
    /\ uploadConfig.DryRun
    /\ stopped
    /\ dirPc = "returned"
    /\ Len(dirResults) = 3
    /\ \A i \in 1..3 : dirResults[i].SkippedReason # ""

\* C6: once the context passed to UploadDirectoryWithRetry is cancelled, no
\* file's first upload attempt issues a transport call, on the sequential
\* path and on the pool path alike.
C6_NoUploadBeginsAfterCancel ==
    \A f \in DOMAIN attempts :
        \A i \in DOMAIN attempts[f] :
            LET a == attempts[f][i] IN
            (a.attempt = 0 /\ a.op # "none") => ~a.cancelled

\* C19: once the directory is scanned, UploadDirectoryWithRetry runs the
\* worker pool exactly when parallel_uploads > 1 and there are more files
\* than parallel_uploads; otherwise no pool worker is started and the files
\* are uploaded one at a time, in scan order, by UploadFileWithRetry in the
\* calling goroutine, with one result per file.
C19_PoolIffMoreFilesThanWorkers ==
    LET poolStarted == \E w \in 1..MaxPoolWorkers : pw[w].pc # "idle" IN
    (dirPc # "start" /\ ~dirErr) =>
        IF uploadConfig.ParallelUploads > 1 /\ Len(files) > uploadConfig.ParallelUploads
        THEN /\ poolStarted
             /\ dirPc # "seq"
             /\ rt[0].pc = "idle"
        ELSE /\ ~poolStarted
             /\ \A t \in DOMAIN rt : t # 0 => rt[t].pc = "idle"
             /\ \A i \in DOMAIN dirResults : dirResults[i].Source = i
             /\ rt[0].pc \notin {"idle", "returned"} => rt[0].file = Len(dirResults) + 1
             /\ dirPc = "returned" => Len(dirResults) = Len(files)

\* with parallel_uploads = 2, a directory of two files has been uploaded
\* one file at a time
C19_Witness ==
    /\ uploadConfig.ParallelUploads = 2
    /\ Len(files) = 2
    /\ dirPc = "returned"
    /\ ~dirErr
    /\ Len(dirResults) = 2
    /\ \A w \in 1..MaxPoolWorkers : pw[w].pc = "idle"

\* C22: on the sequential path a failed file does not end the directory
\* upload: the results returned are one per scanned file, in scan order, and
\* every file has been attempted unless the context was cancelled before its
\* turn (its result is then the cancellation error).
C22_FailureDoesNotAbortDirectory ==
    (dirPc = "returned" /\ ~dirErr /\ ~UsePool) =>
        /\ Len(dirResults) = Len(files)
        /\ \A i \in DOMAIN dirResults :
              /\ dirResults[i].Source = i
              /\ attempts[i] # <<>> \/ (ctxCancelled /\ dirResults[i].Error = "ctx")

\* the first of three files has failed after all its attempts and the two
\* files after it were uploaded
C22_Witness ==
    /\ dirPc = "returned"
    /\ ~UsePool
    /\ ~ctxCancelled
    /\ Len(dirResults) = 3
    /\ ~dirResults[1].Success
    /\ Len(attempts[1]) = 2
    /\ dirResults[2].Success /\ dirResults[2].SkippedReason = ""
    /\ dirResults[3].Success /\ dirResults[3].SkippedReason = ""

(***************************************************************************)
(* Properties of ParallelUploader.Stop.                                    *)
(***************************************************************************)
\* C18: however many goroutines call Stop and however often, no call
\* panics (neither channel is closed a second time), at most one call gets
\* past the compare-and-swap, and once every call has returned the pool is
\* in the state one call leaves: both channels closed, the context
\* cancelled, every worker finished and one result for every job.
C18_StopIsIdempotent ==
    /\ poolPanic = ""
    /\ Cardinality({c \in StopCallers : stopPc[c].pc # "idle"}) <= 1
    /\ (puJobQueueClosed \/ resultQueueClosed \/ poolCancelled) => stopped
    /\ ((\A c \in StopCallers : stopPc[c].pc = "idle") /\ (\E c \in StopCallers : stopPc[c].calls > 0)) =>
          /\ stopped
          /\ puJobQueueClosed
          /\ resultQueueClosed
          /\ poolCancelled
          /\ \A w \in PoolWorkers : pw[w].pc = "done"
          /\ Sources(Emitted) = DOMAIN files
          /\ Len(Emitted) = Len(files)

\* every goroutine has called Stop MaxStopCalls times on a pool that had two
\* jobs queued, and every call has returned
C18_Witness ==
    /\ dirPc = "submitted"
    /\ Len(files) = 2
    /\ \A c \in StopCallers : stopPc[c] = [pc |-> "idle", calls |-> MaxStopCalls]
    /\ resultQueueClosed

\* C28: the job channel is closed once only and only by a call of Stop
\* (a second close would panic), the result channel is closed only when
\* every worker has exited, and no worker sends a result on the closed
\* result channel.
C28_ChannelsClosedOnceAfterWorkers ==
    /\ poolPanic = ""
    /\ puJobQueueClosed => stopped
    /\ resultQueueClosed => puJobQueueClosed /\ \A w \in PoolWorkers : pw[w].pc = "done"
    /\ (puJobQueueClosed /\ dirPc = "submitted") =>
          \/ \E c \in StopCallers : stopPc[c].pc = "wait"
          \/ \E c \in StopCallers : stopPc[c].calls > 0 /\ resultQueueClosed

\* Stop has closed both channels after two workers had sent a result each
C28_Witness ==
    /\ dirPc = "submitted"
    /\ resultQueueClosed
    /\ puJobQueueClosed
    /\ NumWorkers = 2
    /\ Len(Emitted) = 2
    /\ stats.uploaded + stats.failed = 2

\* C29: once Stop has been called on the pool it eventually returns, also
\* when the result channel is full and nobody reads the results.
C29_StopEventuallyReturns ==
    [](stopped => <>(resultQueueClosed /\ poolCancelled))

\* C30: UploadFilesParallel and UploadDirectoryParallel eventually return,
\* for any number of jobs and of workers, and return one result for every
\* submitted job, leaving none in the result channel.
C30_ParallelUploadTerminates ==
    /\ <>(dirPc = "returned")
    /\ [](dirPc = "returned" =>
            /\ Len(dirResults) = Len(files)
            /\ Sources(dirResults) = DOMAIN files
            /\ resultQueue = <<>>
            /\ \A w \in PoolWorkers : pw[w].pc = "done")

\* one worker has worked off three jobs, more than the channels hold, and
\* the results have been returned
C30_Witness ==
    /\ dirPc = "returned"
    /\ NumWorkers = 1
    /\ Len(files) = 3
    /\ Len(dirResults) = 3
    /\ stats.uploaded + stats.failed = 3

(***************************************************************************)
(* Properties of the file scanner.                                         *)
(***************************************************************************)
\* the base name of a path: its last element, trailing separators aside
BaseName(path) ==
    IF \A i \in DOMAIN path : path[i] = Separator THEN <<Separator>>
    ELSE LET end == CHOOSE e \in DOMAIN path :
                        path[e] # Separator /\ \A j \in (e + 1)..Len(path) : path[j] = Separator
             start == CHOOSE b \in 1..end :
                        /\ \A j \in b..end : path[j] # Separator
                        /\ b > 1 => path[b - 1] = Separator
         IN SubSeq(path, start, end)

\* shell glob matching: "*" stands for any run of non-separator characters,
\* "?" for one non-separator character, any other character for itself
RECURSIVE GlobMatches(_, _)
GlobMatches(q, name) ==
    IF q = <<>> THEN name = <<>>
    ELSE IF Head(q) = "*"
    THEN \/ GlobMatches(Tail(q), name)
         \/ name # <<>> /\ Head(name) # Separator /\ GlobMatches(q, Tail(name))
    ELSE /\ name # <<>>
         /\ IF Head(q) = "?" THEN Head(name) # Separator ELSE Head(q) = Head(name)
         /\ GlobMatches(Tail(q), Tail(name))

\* q occurs in p as a literal substring
IsSubstring(q, p) ==
    \E before, after \in 0..Len(p) :
        /\ before + Len(q) + after = Len(p)
        /\ \A i \in 1..Len(q) : p[before + i] = q[i]

\* C16: ShouldExclude(p) is true exactly when some configured pattern q
\* glob-matches the base name of p or occurs in p as a literal substring;
\* with an empty pattern list nothing is excluded.
C16_ExcludedIffSomePatternMatches ==
    ret # <<>> =>
        /\ ret[1] = (\E k \in DOMAIN args.patterns :
                        \/ GlobMatches(args.patterns[k], BaseName(args.filePath))
                        \/ IsSubstring(args.patterns[k], args.filePath))
        /\ args.patterns = <<>> => ret[1] = FALSE

\* a path in a directory is excluded by the second pattern only, and only
\* because the pattern glob-matches its base name
C16_Witness ==
    /\ ret = <<TRUE>>
    /\ Len(args.patterns) = 2
    /\ Contains(args.filePath, <<Separator>>)
    /\ ~GlobMatches(args.patterns[1], BaseName(args.filePath))
    /\ ~IsSubstring(args.patterns[1], args.filePath)
    /\ GlobMatches(args.patterns[2], BaseName(args.filePath))
    /\ ~IsSubstring(args.patterns[2], args.filePath)
    /\ ~GlobMatches(args.patterns[2], args.filePath)

(***************************************************************************)
(* Properties of the task runner.                                          *)
(***************************************************************************)
HasFailedFile(t) == \E i \in DOMAIN t.UploadResults : ~t.UploadResults[i].Success

\* C9: every task with at least one per-file result of success=false is
\* counted in FailedTasks and not in SuccessTasks.
C9_FailedFileFailsTask ==
    LET bad == {i \in DOMAIN report.TaskResults : HasFailedFile(report.TaskResults[i])}
    IN /\ report.FailedTasks >= Cardinality(bad)
       /\ report.SuccessTasks <= Len(report.TaskResults) - Cardinality(bad)

EnabledUpTo(n) == SelectSeq([i \in 1..n |-> i], LAMBDA i : tasks[i].Enabled)

\* C10: the task results are those of the enabled tasks taken up so far, in
\* the declared order; a task whose source cannot be stat'ed has a result with
\* a fatal error and no per-file results; and RunAllTasks returns its report
\* only when every declared task has been taken up.
C10_TasksRunInOrder ==
    /\ Len(report.TaskResults) = Len(EnabledUpTo(trIdx))
    /\ \A i \in DOMAIN report.TaskResults :
         LET t == report.TaskResults[i] IN
         /\ t.TaskName = EnabledUpTo(trIdx)[i]
         /\ tasks[t.TaskName].Source = "missing" => t.Error /\ t.UploadResults = <<>>
    /\ trPc = "returned" => trIdx = Len(tasks) /\ report.TotalTasks = Len(tasks)

\* a task with a missing source was followed by a task that uploaded files,
\* and the report has been returned
C10_Witness ==
    /\ trPc = "returned"
    /\ Len(report.TaskResults) = 2
    /\ tasks[1].Source = "missing"
    /\ report.TaskResults[1].Error
    /\ report.TaskResults[2].UploadResults # <<>>

(***************************************************************************)
(* Properties of the worker pool's queues and counters.                    *)
(***************************************************************************)
SubmitJobBlocked ==
    /\ dirPc = "submit"
    /\ dirIdx < Len(files)
    /\ Len(puJobQueue) >= 2 * NumWorkers
    /\ ~CtxDone("pool")

\* C31: with W workers, at most 2W submitted jobs wait for a worker and at
\* most 2W results wait for the consumer; while the job queue is full and
\* the pool is not cancelled SubmitJob can take no step, and no step of any
\* goroutine makes it return or moves the caller past the job; a SubmitJob
\* that returns nil has put exactly its job at the end of the queue.
C31_QueuesBoundedSubmitBlocks ==
    /\ [](/\ Len(puJobQueue) <= 2 * NumWorkers
          /\ Len(resultQueue) <= 2 * NumWorkers
          /\ SubmitJobBlocked => ~ENABLED SubmitJob)
    /\ [][/\ SubmitJobBlocked => (dirIdx' = dirIdx /\ dirPc' = dirPc)
          /\ dirIdx' # dirIdx => (dirIdx' = dirIdx + 1 /\ puJobQueue' = Append(puJobQueue, dirIdx'))]_vars

\* the caller is in SubmitJob with its third job while the two jobs before
\* it fill the job queue of a pool of one worker
C31_Witness ==
    /\ SubmitJobBlocked
    /\ NumWorkers = 1
    /\ puJobQueue = <<1, 2>>
    /\ dirIdx = 2
    /\ ~poolCancelled

\* the results the workers have sent, in the order of sending
EmittedResults == collectedResults \o resultQueue
UploadedResults(rs) == {i \in DOMAIN rs : rs[i].Success /\ rs[i].SkippedReason = ""}
FailedResults(rs) == {i \in DOMAIN rs : ~rs[i].Success}
RECURSIVE SumOfSizes(_, _)
SumOfSizes(rs, is) ==
    IF is = {} THEN 0
    ELSE LET i == CHOOSE j \in is : TRUE IN rs[i].Size + SumOfSizes(rs, is \ {i})
\* the jobs the workers have received from the job queue
JobsTaken == dirIdx - Len(puJobQueue)

\* C32: once Stop has returned, GetStats agrees with the results sent to the
\* result queue: uploaded is the number of results with Success and no
\* SkippedReason, failed the number of results without Success, totalBytes
\* the sum of the sizes of the uploaded results; and at every moment the
\* counters have been changed at most once for each job a worker has taken.
C32_StatsAgreeWithResults ==
    /\ stats.uploaded + stats.failed <= JobsTaken
    /\ poolCancelled =>
         /\ stats.uploaded = Cardinality(UploadedResults(EmittedResults))
         /\ stats.failed = Cardinality(FailedResults(EmittedResults))
         /\ stats.totalBytes = SumOfSizes(EmittedResults, UploadedResults(EmittedResults))
         /\ Len(EmittedResults) = JobsTaken

\* Stop has returned after two workers sent an uploaded and a failed result
C32_Witness ==
    /\ poolCancelled
    /\ stats.uploaded >= 1
    /\ stats.failed >= 1
    /\ stats.totalBytes > 0
    /\ Len(EmittedResults) = 3

(***************************************************************************)
(* Properties of the ProgressTracker.                                      *)
(***************************************************************************)
\* the bytes of the IncrementProcessed calls that have not returned
RECURSIVE BytesInFlight(_)
BytesInFlight(gs) ==
    IF gs = {} THEN 0
    ELSE LET g == CHOOSE h \in gs : TRUE IN
         (IF ptPc[g].pc = "addBytes" THEN ptPc[g].bytes ELSE 0) + BytesInFlight(gs \ {g})
\* the workers whose last status update gave a file name, with that name
ActiveByLog ==
    [w \in {v \in TrackerCallers : ptLog.last[v] # ""} |-> ptLog.last[w]]

\* C33: under any interleaving of calls from several goroutines no update is
\* lost: processedFiles, failedFiles and skippedFiles are the numbers of
\* IncrementProcessed, IncrementFailed and IncrementSkipped calls, and
\* processedBytes is the sum of the arguments of the IncrementProcessed
\* calls that have returned; the map GetActiveWorkers returns is a new map,
\* not the tracker's own, and its entries are exactly the workers whose last
\* status update gave a non-empty file name.
C33_NoTrackerUpdateLost ==
    /\ [](/\ pt.processedFiles = ptLog.processed
          /\ pt.failedFiles = ptLog.failed
          /\ pt.skippedFiles = ptLog.skipped
          /\ processedBytes = ptLog.bytes - BytesInFlight(TrackerCallers)
          /\ pt.mu.writer = 0 => pt.activeWorkers = ActiveByLog)
    /\ [][\A g \in TrackerCallers :
            (ptPc[g].pc = "rlocked" /\ ptPc'[g].pc = "idle") =>
                ptPc'[g].ret = <<[object |-> "workers", entries |-> ActiveByLog]>>]_vars

\* three calls from two goroutines have returned: worker 1 was reported with
\* a file and then with none, in between GetActiveWorkers returned it
C33_Witness ==
    /\ \A g \in TrackerCallers : ptPc[g].pc = "idle"
    /\ ptLog.calls = MaxTrackerCalls
    /\ \E g \in TrackerCallers :
         /\ ptPc[g].op = "GetActiveWorkers"
         /\ ptPc[g].ret = <<[object |-> "workers", entries |-> [w \in {1} |-> "a"]]>>
    /\ pt.activeWorkers = [w \in {} |-> ""]

\* C34: GetStats returns the ETA -1 exactly when no file has completed; when
\* some file has completed the ETA is (elapsed / completed) * (totalFiles -
\* completed), and it is not negative.
C34_EtaUnknownIffNothingCompleted ==
    ret # <<>> =>
        LET st == ret[1]
            completed == st.ProcessedFiles + st.FailedFiles + st.SkippedFiles
        IN /\ st.ETA = -1 <=> completed = 0
           /\ completed > 0 =>
                /\ st.ETA = (st.Elapsed \div completed) * (st.TotalFiles - completed)
                /\ st.ETA >= 0


(***************************************************************************)
(* Properties of the directory scan                                        *)
(***************************************************************************)
\* the directories strictly between absDir and the entry at names
DirsAbove(names) == {SubSeq(names, 1, k) : k \in 1..(Len(names) - 1)}
InPrunedSubtree(names, patterns) ==
    \E d \in DirsAbove(names) : ShouldExclude(PathOf(d), patterns)
Readable(tree, names) ==
    /\ \A e \in tree : e.names = names => e.ok
    /\ \A e \in tree : e.names \in DirsAbove(names) => e.ok
TimesYielded(fileInfos, names) ==
    Cardinality({i \in DOMAIN fileInfos : fileInfos[i] = FileInfo(names)})
WalkReturned == args.recursive /\ ret # <<>>
FilesToYield(tree, patterns) ==
    {e \in tree : /\ e.kind = "file"
                  /\ ~ShouldExclude(PathOf(e.names), patterns)
                  /\ ~InPrunedSubtree(e.names, patterns)}

\* C35 as stated: in a recursive scan no yielded file lies beneath a
\* directory, other than the scan root, that matches an exclusion pattern,
\* and every non-excluded regular file outside the pruned subtrees is
\* yielded exactly once, also when the scan root itself matches a pattern.
C35_EveryFileOutsidePrunedSubtreesYielded ==
    WalkReturned =>
        /\ \A i \in DOMAIN ret[1] :
              \E e \in args.tree : /\ e.kind = "file"
                                    /\ ret[1][i] = FileInfo(e.names)
                                    /\ ~InPrunedSubtree(e.names, args.patterns)
        /\ \A e \in FilesToYield(args.tree, args.patterns) :
              TimesYielded(ret[1], e.names) = 1

\* C35 amended: in a recursive scan no yielded file lies beneath a
\* directory, other than the scan root, that matches an exclusion pattern;
\* every non-excluded regular file outside the pruned subtrees whose
\* Info() succeeds and whose directories above it can be read is yielded
\* exactly once, also when the scan root itself matches a pattern; a file
\* whose Info() fails or that lies in an unreadable directory is not
\* yielded.
C35_ReadableFilesOutsidePrunedSubtreesYielded ==
    WalkReturned =>
        /\ \A i \in DOMAIN ret[1] :
              \E e \in args.tree : /\ e.kind = "file"
                                    /\ ret[1][i] = FileInfo(e.names)
                                    /\ ~InPrunedSubtree(e.names, args.patterns)
                                    /\ Readable(args.tree, e.names)
        /\ \A e \in FilesToYield(args.tree, args.patterns) :
              TimesYielded(ret[1], e.names) =
                  (IF Readable(args.tree, e.names) THEN 1 ELSE 0)

\* a scan whose root matches a pattern, that pruned a directory holding a
\* file, and that yielded a file of the root
C35_Witness ==
    /\ WalkReturned
    /\ ShouldExclude(absDir, args.patterns)
    /\ \E e \in args.tree : /\ e.kind = "file"
                            /\ InPrunedSubtree(e.names, args.patterns)
                            /\ ~ShouldExclude(PathOf(e.names), args.patterns)
    /\ \E e \in args.tree : Len(e.names) = 1 /\ TimesYielded(ret[1], e.names) = 1


(***************************************************************************)
(* Properties of the task runner's counts                                  *)
(***************************************************************************)
DisabledUpTo(n) == {i \in 1..n : ~tasks[i].Enabled}
\* the loop of RunAllTasks passes a task that is not enabled
PassesDisabledTask ==
    /\ trIdx < Len(tasks)
    /\ trIdx' = trIdx + 1
    /\ ~tasks[trIdx + 1].Enabled

\* C36: the tasks taken up so far are counted once each as successful,
\* failed or skipped, the skipped ones being the tasks with enabled=false;
\* the number of TaskResults is SuccessTasks + FailedTasks; once RunAllTasks
\* has returned, the three counts add up to TotalTasks, the number of
\* declared tasks; and the step that passes a task with enabled=false only
\* adds to SkippedTasks: runTask is not entered, so no source is stat'ed, no
\* file is scanned and no upload attempt is made.
C36_TaskCountsAddUp ==
    /\ [](/\ report.SuccessTasks + report.FailedTasks + report.SkippedTasks = trIdx
          /\ report.SkippedTasks = Cardinality(DisabledUpTo(trIdx))
          /\ Len(report.TaskResults) = report.SuccessTasks + report.FailedTasks
          /\ trPc = "returned" =>
                /\ report.TotalTasks = Len(tasks)
                /\ report.SuccessTasks + report.FailedTasks + report.SkippedTasks
                     = report.TotalTasks)
    /\ [][PassesDisabledTask =>
            /\ report' = [report EXCEPT !.SkippedTasks = @ + 1]
            /\ trPc' = trPc
            /\ UNCHANGED <<calls, files, attempts, rt, dirVars, poolVars>>]_vars

\* RunAllTasks returned after a disabled task and a task that was run
C36_Witness ==
    /\ trPc = "returned"
    /\ Len(tasks) = 2
    /\ ~tasks[1].Enabled
    /\ report.SkippedTasks = 1
    /\ Len(report.TaskResults) = 1
    /\ \E f \in DOMAIN attempts : \E i \in DOMAIN attempts[f] :
          attempts[f][i].op = "put_object"

ResultsWhere(t, P(_)) == {i \in DOMAIN t.UploadResults : P(t.UploadResults[i])}

\* C37: in every TaskResult, TotalFiles = SuccessFiles + FailedFiles +
\* SkippedFiles = the number of per-file results, SkippedFiles is the number
\* of results with success and a non-empty skipped_reason, and TotalBytes is
\* the sum of the sizes of the results with success and an empty
\* skipped_reason.
C37_FileCountsAddUp ==
    \A k \in DOMAIN report.TaskResults :
        LET t == report.TaskResults[k]
            SkippedOnes == ResultsWhere(t, LAMBDA r : r.Success /\ r.SkippedReason # "")
            UploadedOnes == ResultsWhere(t, LAMBDA r : r.Success /\ r.SkippedReason = "")
        IN /\ t.TotalFiles = t.SuccessFiles + t.FailedFiles + t.SkippedFiles
           /\ t.TotalFiles = Len(t.UploadResults)
           /\ t.SkippedFiles = Cardinality(SkippedOnes)
           /\ t.TotalBytes = SumOfSizes(t.UploadResults, UploadedOnes)

\* a task result with an uploaded and a failed file, and one with a skipped
\* file of a dry run
C37_Witness ==
    \E k \in DOMAIN report.TaskResults :
        LET t == report.TaskResults[k] IN
        /\ t.TotalFiles = 2
        /\ t.TotalBytes > 0
        /\ t.FailedFiles = 1


(***************************************************************************)
(* Properties of the two paths of a directory upload                       *)
(***************************************************************************)
KeyPrefixes ==
    {<<>>, <<"p">>, <<"p", Separator>>, <<Separator, "p">>,
     <<"p", Separator, Separator, "q">>, <<Dot, Dot>>}
\* the relative path the scan gave for the file
ScannedRelativePath(f) ==
    IF f = 1 THEN RelativePathOf(<<"a">>) ELSE RelativePathOf(<<"c", "a">>)
\* the key passed to UploadFileWithRetry on the path that ran
KeyOnPathTaken(keyPrefix, f) ==
    IF UsePool THEN generateS3Key(keyPrefix, ScannedRelativePath(f))
    ELSE SequentialKey(keyPrefix, ScannedRelativePath(f))
\* what the directory and the transport decide for a file: it can be
\* stat'ed, and the transport, when it fails at times, accepted it in the end
AcceptedByTransport(f) ==
    /\ files[f].statOk
    /\ files[f].flaky =>
          attempts[f] # <<>> /\ attempts[f][Len(attempts[f])].ok
DirectoryReturned == dirPc = "returned" /\ ~dirErr

\* C38: the results of a directory upload are decided by the directory, the
\* options and the transport alone, so the worker-pool path and the
\* sequential path return the same set of (source path, key, success): one
\* result per scanned file, with the key to_forward_slash(join(key_prefix,
\* relative_path)) and with success exactly when the file can be stat'ed and
\* the transport accepts it.  (The bucket is passed through unchanged.)
C38_BothPathsSameResults ==
    DirectoryReturned =>
        \A keyPrefix \in KeyPrefixes :
            {<<dirResults[i].Source, KeyOnPathTaken(keyPrefix, dirResults[i].Source),
               dirResults[i].Success>> : i \in DOMAIN dirResults}
              = {<<f, ToSlash(Join(<<keyPrefix, ScannedRelativePath(f)>>)),
                   AcceptedByTransport(f)>> : f \in DOMAIN files}


(***************************************************************************)
(* Properties of SubmitJob on a stopped pool                               *)
(***************************************************************************)
\* C39: a SubmitJob called after Stop has been called never panics with a
\* send on the closed job channel, and it returns the error "parallel
\* uploader is stopped" without enqueuing its job.
C39_SubmitAfterStopReturnsError ==
    /\ poolPanic = ""
    /\ ret # <<>> => ret[1] = Submitted(StoppedError, FALSE)


(***************************************************************************)
(* Properties of ParallelMultipartUploader.Upload                          *)
(***************************************************************************)
UploadRunning == mpIn.variant = "par" /\ mpPc \in {"upload", "gen", "errloop"}
WorkersRunning == {w \in Workers : wk[w].pc \notin {"idle", "done"}}
EveryPartUploaded ==
    {parts[i].PartNumber : i \in DOMAIN parts} = 1..TotalParts(mpIn.fileSize, Chunk)

\* C40: Upload always returns; while jobs are generated the job queue has
\* room for the next job, whatever the workers have done; every running
\* worker has room in errChan for its error, and every worker ends; and
\* Upload returns nil only when every part has been uploaded.
C40_UploadAlwaysReturns ==
    /\ [](UploadRunning => <>(~UploadRunning))
    /\ [](mpPc = "gen" /\ offset < mpIn.fileSize =>
             Len(jobQueue) < TotalParts(mpIn.fileSize, Chunk))
    /\ [](mpIn.variant = "par" =>
             Len(errChan) + Cardinality(WorkersRunning) <= ErrChanCap)
    /\ [](WorkersRunning # {} => <>(WorkersRunning = {}))
    /\ [](mpIn.variant = "par" /\ mpPc = "complete" => EveryPartUploaded)

\* Upload has returned the error of one worker while the error of the other
\* is left in errChan, every worker has ended, and a part was not uploaded
C40_Witness ==
    /\ mpIn.variant = "par"
    /\ mpPc = "done"
    /\ uploadErr
    /\ WorkersExited
    /\ Len(errChan) = 1
    /\ ~EveryPartUploaded

====
